---- MODULE Spec2Model ----
(***************************************************************************)
(* Outline extraction (task1a): hierarchy renormalization, outline         *)
(* post-processing, title selection and the repetition detector.           *)
(*                                                                         *)
(* A text is a sequence of one-character strings, so that stripping,       *)
(* lower-casing, whitespace collapsing and the regular expressions of the  *)
(* source are computed character by character.                             *)
(***************************************************************************)
EXTENDS Integers, Sequences, FiniteSets, TLC

VARIABLES
    pc,                \* position in the run of the modelled operation
    cfg,               \* the Task1AConfig fields the operations read
    heading_candidates, \* detect_headings: the scored candidates, in page order
    labeled_headings,  \* build_outline's argument
    raw_outline,       \* the list handed to renormalize_by_number_tree
    outline,           \* the list an operation returns
    output,            \* writer: the dict make_output_from_outline returns
    rows,              \* repetition: the feature rows
    repeated,          \* repetition: the returned set
    nlp,               \* semantic filter: what _get_nlp_by_model returned
    pdf_paths,         \* run.py: the documents main iterates over
    next_pdf,          \* run.py: index of the next document of the loop
    out_files,         \* run.py: the files in the output directory
    processed,         \* run.py: counter of written documents
    failed,            \* run.py: counter of documents whose run raised
    attempted,         \* run.py: the names logged as 'Processing: ...', in order
    timeout_warnings,  \* run.py: number of hard_timeout_seconds warnings logged
    exit_code,         \* run.py: what main returned, -1 while it runs
    doc,               \* pipeline: the opened document, its TOC and page labels
    page_nums          \* pipeline: the list _make_page_numbers returned

batch_vars == <<pdf_paths, next_pdf, out_files, processed, failed, attempted,
                timeout_warnings, exit_code>>

doc_vars == <<doc, page_nums>>

vars == <<pc, cfg, heading_candidates, labeled_headings, raw_outline, outline, output, rows,
          repeated, nlp, batch_vars, doc_vars>>

\* None, as _get_nlp_by_model returns it when spacy.load raises
NoModel == [loaded |-> FALSE, content |-> {}]

\* a document without table of contents and without pages
NoDocument == [toc |-> <<>>, labels |-> <<>>]

\* no batch is running, no document is open and no tagging model is loaded
NoBatch ==
    /\ nlp = NoModel
    /\ pdf_paths = <<>>
    /\ next_pdf = 1
    /\ out_files = {}
    /\ processed = 0
    /\ failed = 0
    /\ attempted = <<>>
    /\ timeout_warnings = 0
    /\ exit_code = -1
    /\ doc = NoDocument
    /\ page_nums = <<>>

-----------------------------------------------------------------------------
(* Bounds *)

MaxItems == 3

MaxHeadings == 3

\* pages of 800 points, a body font of 10 points: line_font_size is a
\* hundredth-ratio divided by 10
PageHeight == 800

BodyFontDiv == 10

-----------------------------------------------------------------------------
(* Characters and strings (Python str methods) *)

UpperSeq == <<"A","B","C","D","E","F","G","H","I","J","K","L","M",
              "N","O","P","Q","R","S","T","U","V","W","X","Y","Z">>

LowerSeq == <<"a","b","c","d","e","f","g","h","i","j","k","l","m",
              "n","o","p","q","r","s","t","u","v","w","x","y","z">>

DigitSeq == <<"0","1","2","3","4","5","6","7","8","9">>

Range(s) == {s[i] : i \in DOMAIN s}

UpperChars == Range(UpperSeq)

LowerChars == Range(LowerSeq)

DigitChars == Range(DigitSeq)

\* \s of the re module, str.isspace
WS == {" ", "\t", "\n"}

IsSpace(c) == c \in WS

\* str.isalpha
IsAlpha(c) == c \in UpperChars \cup LowerChars

IsUpper(c) == c \in UpperChars

IsDigit(c) == c \in DigitChars

\* \w of the re module
IsWordChar(c) == IsAlpha(c) \/ IsDigit(c) \/ c = "_"

\* the lower-case letter of each upper-case letter
LowerOf == [c \in UpperChars |-> LowerSeq[CHOOSE i \in DOMAIN UpperSeq : UpperSeq[i] = c]]

LowerChar(c) == IF c \in UpperChars THEN LowerOf[c] ELSE c

\* str.lower
Lower(s) == [i \in DOMAIN s |-> LowerChar(s[i])]

DigitVal(c) == (CHOOSE i \in DOMAIN DigitSeq : DigitSeq[i] = c) - 1

\* first index >= i whose character is not whitespace (Len(s)+1 when none)
RECURSIVE SkipWS(_, _)
SkipWS(s, i) ==
    IF i <= Len(s) /\ IsSpace(s[i]) THEN SkipWS(s, i + 1) ELSE i

\* last index <= i whose character is not whitespace (0 when none)
RECURSIVE SkipWSBack(_, _)
SkipWSBack(s, i) ==
    IF i >= 1 /\ IsSpace(s[i]) THEN SkipWSBack(s, i - 1) ELSE i

\* str.lstrip, str.rstrip, str.strip
LStrip(s) == SubSeq(s, SkipWS(s, 1), Len(s))

RStrip(s) == SubSeq(s, 1, SkipWSBack(s, Len(s)))

Strip(s) == RStrip(LStrip(s))

\* first index >= i whose character is whitespace (Len(s)+1 when none)
RECURSIVE SkipNonWS(_, _)
SkipNonWS(s, i) ==
    IF i <= Len(s) /\ ~IsSpace(s[i]) THEN SkipNonWS(s, i + 1) ELSE i

\* str.split(): the maximal runs of non-whitespace characters
RECURSIVE SplitFrom(_, _)
SplitFrom(s, i) ==
    LET b == SkipWS(s, i)
        e == SkipNonWS(s, b)
    IN  IF b > Len(s) THEN <<>>
        ELSE <<SubSeq(s, b, e - 1)>> \o SplitFrom(s, e)

Split(s) == SplitFrom(s, 1)

\* " ".join(words)
RECURSIVE JoinSpace(_)
JoinSpace(words) ==
    IF words = <<>> THEN <<>>
    ELSE IF Len(words) = 1 THEN words[1]
    ELSE words[1] \o <<" ">> \o JoinSpace(Tail(words))

\* re.sub(r"\s+", " ", s): every run of whitespace becomes one blank.  The
\* first character of each run is kept, as a blank; the rest of the run goes.
CollapseWS(s) ==
    LET First(i) == ~IsSpace(s[i]) \/ i = 1 \/ ~IsSpace(s[i - 1])
        kept     == SelectSeq([i \in 1..Len(s) |-> i], First)
    IN  [j \in 1..Len(kept) |-> IF IsSpace(s[kept[j]]) THEN " " ELSE s[kept[j]]]

\* str.endswith(suffix) for a one-character suffix
EndsWithChar(s, c) == Len(s) >= 1 /\ s[Len(s)] = c

-----------------------------------------------------------------------------
(* Dotted numbers and the appendix marker *)

\* index after the run of digits that starts at i
RECURSIVE DigitsEnd(_, _)
DigitsEnd(s, i) ==
    IF i <= Len(s) /\ IsDigit(s[i]) THEN DigitsEnd(s, i + 1) ELSE i

\* int() of the digits s[i..j]
RECURSIVE IntOf(_, _, _)
IntOf(s, i, j) ==
    IF j < i THEN 0 ELSE IntOf(s, i, j - 1) * 10 + DigitVal(s[j])

\* index after the greedy match of digits and ".digits" groups that starts at i
\* (i when there is none)
RECURSIVE NumberEnd(_, _)
NumberEnd(s, i) ==
    LET e == DigitsEnd(s, i)
    IN  IF e = i THEN i
        ELSE IF e + 1 <= Len(s) /\ s[e] = "." /\ IsDigit(s[e + 1])
        THEN NumberEnd(s, e + 1)
        ELSE e

\* the segments of the dotted number s[i..e-1] as integers
RECURSIVE Segments(_, _, _)
Segments(s, i, e) ==
    LET d == DigitsEnd(s, i)
    IN  IF i >= e THEN <<>>
        ELSE <<IntOf(s, i, d - 1)>> \o Segments(s, d + 1, e)

\* NUM_RE.match(text): the number tuple, <<>> when there is no match
NumTuple(text) ==
    LET b == SkipWS(text, 1)
        e == NumberEnd(text, b)
    IN  Segments(text, b, e)

\* APP_RE.match(text): optional blanks, "appendix", blanks, one letter and a
\* word boundary, ignoring case
APP_RE_match(text) ==
    LET b  == SkipWS(text, 1)
        kw == <<"a","p","p","e","n","d","i","x">>
        a  == b + Len(kw)
        l  == SkipWS(text, a)
    IN  /\ a - 1 <= Len(text)
        /\ Lower(SubSeq(text, b, a - 1)) = kw
        /\ l > a
        /\ l <= Len(text)
        /\ IsAlpha(text[l])
        /\ (l = Len(text) \/ ~IsWordChar(text[l + 1]))

-----------------------------------------------------------------------------
(* hierarchy.py *)

Max(a, b) == IF a >= b THEN a ELSE b

Min(a, b) == IF a <= b THEN a ELSE b

\* a clamp that forgets the upper end
clamp_open(x) == Max(1, x)

clamp(x) == Max(1, Min(3, x))

\* f"H{n}"
FmtLevel(n) == "H" \o ToString(n)

_is_prefix(prefix, full) ==
    /\ Len(prefix) <= Len(full)
    /\ SubSeq(full, 1, Len(prefix)) = prefix

\* PopStack that pops one entry at most
PopStack_once(stack, num_tuple) ==
    IF stack # <<>> /\ ~_is_prefix(stack[Len(stack)].tuple, num_tuple)
    THEN SubSeq(stack, 1, Len(stack) - 1)
    ELSE stack

\* while stack and not _is_prefix(stack[-1][0], num_tuple): stack.pop()
RECURSIVE PopStack(_, _)
PopStack(stack, num_tuple) ==
    IF stack # <<>> /\ ~_is_prefix(stack[Len(stack)].tuple, num_tuple)
    THEN PopStack(SubSeq(stack, 1, Len(stack) - 1), num_tuple)
    ELSE stack

\* the level of an ordinary numbered entry, from the popped stack
NumberedLevel(popped, num_tuple) ==
    IF popped = <<>> THEN 1
    ELSE LET parent    == popped[Len(popped)]
             rel_depth == Max(1, Len(num_tuple) - Len(parent.tuple))
         IN  clamp(parent.level + rel_depth)

\* RenormStep with the appendix children bump added to the entry's own level
\* instead of the appendix base
RenormStep_bump_own_level(st, it, base, bump) ==
    LET text      == Strip(it.text)
        num_tuple == NumTuple(text)
        own       == CHOOSE n \in 1..3 : FmtLevel(n) = it.level
    IN  IF APP_RE_match(text)
        THEN [out   |-> Append(st.out, [it EXCEPT !.level = FmtLevel(clamp(base))]),
              stack |-> <<>>,
              app   |-> <<base>>]
        ELSE IF num_tuple # <<>>
        THEN IF st.app # <<>>
             THEN LET level_int == clamp(own + bump)
                  IN  [out   |-> Append(st.out, [it EXCEPT !.level = FmtLevel(level_int)]),
                       stack |-> Append(st.stack, [tuple |-> num_tuple, level |-> level_int]),
                       app   |-> st.app]
             ELSE LET popped    == PopStack(st.stack, num_tuple)
                      level_int == NumberedLevel(popped, num_tuple)
                  IN  [out   |-> Append(st.out, [it EXCEPT !.level = FmtLevel(level_int)]),
                       stack |-> Append(popped, [tuple |-> num_tuple, level |-> level_int]),
                       app   |-> st.app]
        ELSE [st EXCEPT !.out = Append(st.out, it)]

\* RenormStep whose appendix mode ends with the first numbered entry
RenormStep_appendix_once(st, it, base, bump) ==
    LET text      == Strip(it.text)
        num_tuple == NumTuple(text)
    IN  IF APP_RE_match(text)
        THEN [out   |-> Append(st.out, [it EXCEPT !.level = FmtLevel(clamp(base))]),
              stack |-> <<>>,
              app   |-> <<base>>]
        ELSE IF num_tuple # <<>>
        THEN IF st.app # <<>>
             THEN LET level_int == clamp(st.app[1] + bump)
                  IN  [out   |-> Append(st.out, [it EXCEPT !.level = FmtLevel(level_int)]),
                       stack |-> Append(st.stack, [tuple |-> num_tuple, level |-> level_int]),
                       app   |-> <<>>]
             ELSE LET popped    == PopStack(st.stack, num_tuple)
                      level_int == NumberedLevel(popped, num_tuple)
                  IN  [out   |-> Append(st.out, [it EXCEPT !.level = FmtLevel(level_int)]),
                       stack |-> Append(popped, [tuple |-> num_tuple, level |-> level_int]),
                       app   |-> st.app]
        ELSE [st EXCEPT !.out = Append(st.out, it)]

\* One iteration of the loop over items.  st is the loop state: the list
\* `out`, the `stack` of (number tuple, level) and base_after_appendix
\* (<<>> for None, <<b>> for the integer b).
RenormStep(st, it, base, bump) ==
    LET text      == Strip(it.text)
        num_tuple == NumTuple(text)
    IN  IF APP_RE_match(text)
        THEN [out   |-> Append(st.out, [it EXCEPT !.level = FmtLevel(clamp(base))]),
              stack |-> <<>>,
              app   |-> <<base>>]
        ELSE IF num_tuple # <<>>
        THEN IF st.app # <<>>
             THEN LET level_int == clamp(st.app[1] + bump)
                  IN  [out   |-> Append(st.out, [it EXCEPT !.level = FmtLevel(level_int)]),
                       stack |-> Append(st.stack, [tuple |-> num_tuple, level |-> level_int]),
                       app   |-> st.app]
             ELSE LET popped    == PopStack(st.stack, num_tuple)
                      level_int == NumberedLevel(popped, num_tuple)
                  IN  [out   |-> Append(st.out, [it EXCEPT !.level = FmtLevel(level_int)]),
                       stack |-> Append(popped, [tuple |-> num_tuple, level |-> level_int]),
                       app   |-> st.app]
        ELSE [st EXCEPT !.out = Append(st.out, it)]

\* the loop state after the first n items
RECURSIVE RenormLoop(_, _, _, _)
RenormLoop(items, n, base, bump) ==
    IF n = 0 THEN [out |-> <<>>, stack |-> <<>>, app |-> <<>>]
    ELSE RenormStep(RenormLoop(items, n - 1, base, bump), items[n], base, bump)

\* renormalize_by_number_tree that leaves out the entries it does not level
renormalize_by_number_tree_levelled_only(items, base, bump) ==
    SelectSeq(RenormLoop(items, Len(items), base, bump).out,
              LAMBDA it : APP_RE_match(Strip(it.text)) \/ NumTuple(Strip(it.text)) # <<>>)

renormalize_by_number_tree(items, base, bump) ==
    RenormLoop(items, Len(items), base, bump).out

-----------------------------------------------------------------------------
(* postprocess.py *)

\* _LEVEL2INT.get(level, 3)
LEVEL2INT(level) ==
    IF level = "H1" THEN 1 ELSE IF level = "H2" THEN 2 ELSE 3

\* _INT2LEVEL[n]
INT2LEVEL(n) == <<"H1", "H2", "H3">>[n]

\* _normalize_text: strip, lower-case, every run of blanks to one blank
_normalize_text(text) == CollapseWS(Lower(Strip(text)))

\* the sort key without the page
KeyLE_y_only(a, b) == a.y_position <= b.y_position

\* the sort key (h.page_index0, h.y_position)
KeyLE(a, b) ==
    \/ a.page_index0 < b.page_index0
    \/ (a.page_index0 = b.page_index0 /\ a.y_position <= b.y_position)

\* list.sort(key=...): stable, so h goes after the elements whose key is <= its own
RECURSIVE InsertSorted(_, _)
InsertSorted(sorted, h) ==
    IF sorted = <<>> THEN <<h>>
    ELSE IF KeyLE(sorted[Len(sorted)], h) THEN Append(sorted, h)
    ELSE Append(InsertSorted(SubSeq(sorted, 1, Len(sorted) - 1), h), sorted[Len(sorted)])

RECURSIVE SortHeadings(_, _)
SortHeadings(hs, n) ==
    IF n = 0 THEN <<>> ELSE InsertSorted(SortHeadings(hs, n - 1), hs[n])

\* min(all_pages)
RECURSIVE MinOf(_)
MinOf(S) ==
    LET x == CHOOSE y \in S : TRUE
    IN  IF S = {x} THEN x ELSE Min(x, MinOf(S \ {x}))

\* the jump repair: at most one level deeper than the entry emitted last
JumpRepair(level_int, last_level_int) ==
    IF last_level_int = 0 THEN level_int
    ELSE IF level_int > last_level_int + 1 THEN Min(last_level_int + 1, 3)
    ELSE level_int

\* One iteration of the loop of build_outline over the sorted headings.
\* st: raw_outline, seen_key, last_level_int, first_h1_seen (the pages in it).
OutlineStep(st, h, c, first_page_num) ==
    LET normalized_level == INT2LEVEL(JumpRepair(LEVEL2INT(h.level), st.last_level_int))
        is_h1            == normalized_level = "H1"
        demoted          == IF is_h1 /\ h.page_num1 \in st.first_h1_seen
                            THEN "H2" ELSE normalized_level
        h1_seen          == IF is_h1 THEN st.first_h1_seen \cup {h.page_num1}
                            ELSE st.first_h1_seen
        key              == <<h.page_num1, _normalize_text(h.text)>>
        forced           == /\ c.kw_enabled
                            /\ c.force_h1_if_early
                            /\ h.page_num1 <= c.force_h1_max_page
                            /\ Lower(Strip(h.text)) \in c.kw_list
        level            == IF forced THEN "H1" ELSE demoted
    IN  IF c.drop_first_page_headings_from_outline /\ h.page_num1 = first_page_num
        THEN st
        ELSE IF key \in st.seen_key
        THEN [st EXCEPT !.first_h1_seen = h1_seen]
        ELSE [raw_outline    |-> Append(st.raw_outline,
                                    [level |-> level, text |-> Strip(h.text),
                                     page |-> h.page_num1, score |-> h.score]),
              seen_key       |-> st.seen_key \cup {key},
              last_level_int |-> LEVEL2INT(level),
              first_h1_seen  |-> h1_seen]

RECURSIVE OutlineLoop(_, _, _, _)
OutlineLoop(hs, n, c, first_page_num) ==
    IF n = 0
    THEN [raw_outline |-> <<>>, seen_key |-> {}, last_level_int |-> 0, first_h1_seen |-> {}]
    ELSE OutlineStep(OutlineLoop(hs, n - 1, c, first_page_num), hs[n], c, first_page_num)

\* the raw outline: the loop over the sorted headings
RawOutline(sorted, c) ==
    OutlineLoop(sorted, Len(sorted), c,
                MinOf({sorted[i].page_num1 : i \in DOMAIN sorted})).raw_outline

\* re.match of optional blanks and a digit
_looks_numbered(text) ==
    LET b == SkipWS(text, 1) IN b <= Len(text) /\ IsDigit(text[b])

\* the letters of text
AlphaOf(text) == SelectSeq(text, IsAlpha)

_looks_heading_like(text) ==
    LET alpha        == AlphaOf(text)
        words        == Split(text)
        has_titleish == \E i \in DOMAIN words : IsUpper(words[i][1])
        all_upper    == \A i \in DOMAIN alpha : IsUpper(alpha[i])
    IN  /\ Len(alpha) >= 3
        /\ (has_titleish \/ (all_upper /\ Len(alpha) >= 2))

Abs(x) == IF x < 0 THEN -x ELSE x

\* str.endswith((':', '-', em dash))
EndsWithConnector(text) ==
    EndsWithChar(text, ":") \/ EndsWithChar(text, "-") \/ EndsWithChar(text, "emdash")

\* a merge rule that lets an entry of up to three words through
_should_merge_three_words(prev, item, txt) ==
    LET words == Split(txt)
    IN  /\ ~(Len(words) = 0 \/ Len(words) > 3)
        /\ ~_looks_numbered(txt)
        /\ ~_looks_heading_like(txt)
        /\ \/ EndsWithConnector(RStrip(prev.text))
           \/ Abs(prev.score - item.score) <= 1

_should_merge(prev, item, txt) ==
    LET words == Split(txt)
    IN  /\ ~(Len(words) = 0 \/ Len(words) > 2)
        /\ ~_looks_numbered(txt)
        /\ ~_looks_heading_like(txt)
        /\ \/ EndsWithConnector(RStrip(prev.text))
           \/ Abs(prev.score - item.score) <= 1

\* One iteration of the loop of _merge_trailing_short_tokens, on item i.
\* `merged` holds the very dicts of the argument, so the loop state is the
\* argument `a` with the assignments made so far and the positions `kept` of
\* the dicts that are in `merged`.
MergeStep(st, i) ==
    LET item == st.a[i]
    IN  IF st.kept = <<>> THEN [st EXCEPT !.kept = <<i>>]
        ELSE LET p    == st.kept[Len(st.kept)]
                 prev == st.a[p]
                 txt  == Strip(item.text)
             IN  IF item.page # prev.page THEN [st EXCEPT !.kept = Append(@, i)]
                 ELSE IF item.level # prev.level THEN [st EXCEPT !.kept = Append(@, i)]
                 ELSE IF _should_merge(prev, item, txt)
                 THEN [st EXCEPT !.a[p] =
                          [prev EXCEPT !.text  = Strip(RStrip(prev.text) \o <<" ">> \o txt),
                                       !.score = Max(prev.score, item.score)]]
                 ELSE [st EXCEPT !.kept = Append(@, i)]

RECURSIVE MergeLoop(_, _)
MergeLoop(items, n) ==
    IF n = 0 THEN [a |-> items, kept |-> <<>>]
    ELSE MergeStep(MergeLoop(items, n - 1), n)

\* the list `merged` of a loop state
MergedOf(st) == [j \in DOMAIN st.kept |-> st.a[st.kept[j]]]

_merge_trailing_short_tokens(items) == MergedOf(MergeLoop(items, Len(items)))

\* the argument of _merge_trailing_short_tokens after the call
MergeArgumentAfter(items) == MergeLoop(items, Len(items)).a

build_outline(hs, c) ==
    IF hs = <<>> THEN <<>>
    ELSE _merge_trailing_short_tokens(
             renormalize_by_number_tree(
                 RawOutline(SortHeadings(hs, Len(hs)), c),
                 c.appendix_base_level, c.appendix_children_bump))

-----------------------------------------------------------------------------
(* writer.py *)

T_Untitled == <<"U","n","t","i","t","l","e","d"," ","D","o","c","u","m","e","n","t">>

\* _GARBAGE_RE.search(text): somewhere a character (not a newline), optional
\* blanks, and the same character again, ignoring case; the rest of the
\* pattern matches the empty string
GARBAGE_RE_search(text) ==
    \E i, j \in DOMAIN text :
        /\ i < j
        /\ text[i] # "\n"
        /\ LowerChar(text[j]) = LowerChar(text[i])
        /\ \A k \in (i + 1)..(j - 1) : IsSpace(text[k])

_looks_garbage(text) ==
    \/ text = <<>>
    \/ Len(SelectSeq(text, LAMBDA c : ~IsSpace(c))) < 3
    \/ GARBAGE_RE_search(text)

\* The first loop of _select_title_from_outline over the first n entries:
\* `best` (<<>> for None) and best_score.
RECURSIVE BestLoop(_, _)
BestLoop(o, n) ==
    IF n = 0 THEN [best |-> <<>>, best_score |-> -1]
    ELSE LET st  == BestLoop(o, n - 1)
             txt == Strip(o[n].text)
         IN  IF o[n].level = "H1" /\ ~_looks_garbage(txt) /\ o[n].score > st.best_score
             THEN [best |-> txt, best_score |-> o[n].score]
             ELSE st

\* the fallback that takes the first entry whatever its level
FirstEntryText(o) == Strip(o[1].text)

\* The second loop: the first H1 entry whose stripped text is not empty
FirstH1Text(o) ==
    LET H1s == {i \in DOMAIN o : o[i].level = "H1" /\ Strip(o[i].text) # <<>>}
    IN  IF H1s = {} THEN <<>>
        ELSE Strip(o[CHOOSE i \in H1s : \A j \in H1s : i <= j].text)

\* _select_title_from_outline without its two fallbacks
_select_title_from_outline_best_only(o) ==
    IF o = <<>> THEN T_Untitled
    ELSE LET best == BestLoop(o, Len(o)).best
         IN  IF best # <<>> THEN best ELSE T_Untitled

_select_title_from_outline(o) ==
    IF o = <<>> THEN T_Untitled
    ELSE LET best == BestLoop(o, Len(o)).best
         IN  IF best # <<>> THEN best
             ELSE IF FirstH1Text(o) # <<>> THEN FirstH1Text(o)
             ELSE IF Strip(o[1].text) # <<>> THEN Strip(o[1].text)
             ELSE T_Untitled

make_output_from_outline(o) ==
    [title   |-> _select_title_from_outline(o),
     outline |-> [i \in DOMAIN o |->
                     [level |-> o[i].level, text |-> o[i].text, page |-> o[i].page]]]

-----------------------------------------------------------------------------
(* feature_extractor.py (word count) and repetition.py *)

\* a character WORD_RE can hold inside a word: a word character, ' or -
IsWordRunChar(c) == IsWordChar(c) \/ c = "'" \/ c = "-"

\* len(WORD_RE.findall(text)): a match runs from the first to the last word
\* character of a maximal run of word characters, ' and -, so the matches are
\* the runs that hold a word character
WordCount(text) ==
    Cardinality({i \in DOMAIN text :
        /\ IsWordRunChar(text[i])
        /\ (i = 1 \/ ~IsWordRunChar(text[i - 1]))
        /\ \E j \in i..Len(text) :
               /\ IsWordChar(text[j])
               /\ \A k \in i..j : IsWordRunChar(text[k])})

\* the row extract_features makes of a line: the text as it is, the words of
\* the stripped text
FeatureRow(text) == [text |-> text, word_count |-> WordCount(Strip(text))]

\* _core_len: the characters that _CORE_STRIP_RE leaves
CoreStripChars == {".", ",", "!", "?", "'", "-", "_", "*", ":", ";", "(", ")", "{", "}", "[", "]"}

_core_len(text) == Len(SelectSeq(text, LAMBDA c : ~IsSpace(c) /\ c \notin CoreStripChars))

\* NUMERIC_PREFIX_RE.match(text): after optional blanks, digits and a dot,
\* digits in parentheses, or digits and a closing parenthesis
NUMERIC_PREFIX_RE_match(text) ==
    LET b == SkipWS(text, 1)
        e == DigitsEnd(text, b)
        p == DigitsEnd(text, b + 1)
    IN  \/ e > b /\ e <= Len(text) /\ text[e] \in {".", ")"}
        \/ /\ b <= Len(text) /\ text[b] = "("
           /\ p > b + 1 /\ p <= Len(text) /\ text[p] = ")"

\* the words WORD_RE finds, as pairs of first and last position: in each
\* maximal run of word characters, ' and -, from its first to its last word
\* character
WordsOf(text) ==
    {w \in (DOMAIN text) \X (DOMAIN text) :
        /\ w[1] <= w[2]
        /\ IsWordChar(text[w[1]]) /\ IsWordChar(text[w[2]])
        /\ \A k \in w[1]..w[2] : IsWordRunChar(text[k])
        /\ \A k \in 1..(w[1] - 1) :
               (\A m \in k..w[1] : IsWordRunChar(text[m])) => ~IsWordChar(text[k])
        /\ \A k \in (w[2] + 1)..Len(text) :
               (\A m \in w[2]..k : IsWordRunChar(text[m])) => ~IsWordChar(text[k])}

\* _is_title_case of the word text[w[1]..w[2]]
_is_title_case(text, w) ==
    /\ IsUpper(text[w[1]])
    /\ w[1] < w[2] =>
           /\ \E k \in (w[1] + 1)..w[2] : IsAlpha(text[k])
           /\ \A k \in (w[1] + 1)..w[2] : ~IsUpper(text[k])

\* title_case_ratio >= 0.6 and uppercase_ratio >= 0.6, the tests rules 8 and 9
\* of detect_headings make
TitleCaseRatioAtLeast60(text) ==
    LET words == WordsOf(text)
    IN  /\ words # {}
        /\ 10 * Cardinality({w \in words : _is_title_case(text, w)}) >= 6 * Cardinality(words)

UppercaseRatioAtLeast60(text) ==
    LET letters == SelectSeq(text, IsAlpha)
    IN  /\ letters # <<>>
        /\ 10 * Len(SelectSeq(letters, IsUpper)) >= 6 * Len(letters)

\* the features extract_features computes from the text of a line
text_features(text) ==
    LET t == Strip(text)
    IN  [text |-> text,
         has_numeric_prefix |-> NUMERIC_PREFIX_RE_match(t),
         word_count |-> WordCount(t),
         char_count |-> _core_len(t),
         ends_with_colon |-> EndsWithChar(t, ":"),
         ends_with_period |-> EndsWithChar(t, "."),
         title_case_ratio_ge_60 |-> TitleCaseRatioAtLeast60(t),
         uppercase_ratio_ge_60 |-> UppercaseRatioAtLeast60(t)]

\* the FeatureRow extract_features builds of a line: the features of its text
\* and the layout values of the line
FeatureRowOf(features, page_index0, y0, vertical_gap, lay) ==
    features @@
    [page_index0 |-> page_index0,
     page_num1 |-> page_index0 + 1,
     line_font_size |-> lay.font_size_ratio \div BodyFontDiv,
     is_bold_majority |-> lay.is_bold_majority,
     y_position |-> y0,
     vertical_gap |-> vertical_gap,
     gap_above_z |-> lay.gap_above_z,
     gap_below_z |-> lay.gap_below_z,
     font_size_ratio |-> lay.font_size_ratio,
     center_deviation |-> lay.center_deviation,
     page_top_distance |-> (100 * y0) \div PageHeight]

extract_row(text, page_index0, y0, vertical_gap, lay) ==
    FeatureRowOf(text_features(text), page_index0, y0, vertical_gap, lay)

\* _norm_exact without the lower-casing
_norm_exact_keep_case(text) == JoinSpace(Split(Strip(text)))

_norm_exact(text) == Lower(JoinSpace(Split(Strip(text))))

\* the rows find_repeated_headings counts
CountedRows(rs, c) ==
    {i \in DOMAIN rs :
        /\ ~(rs[i].word_count = 0 \/ rs[i].word_count > c.rep_max_words)
        /\ _norm_exact(rs[i].text) # <<>>}

find_repeated_headings(rs, c) ==
    IF ~c.rep_enable THEN {}
    ELSE LET counted == CountedRows(rs, c)
             counts  == [t \in {_norm_exact(rs[i].text) : i \in counted} |->
                            Cardinality({i \in counted : _norm_exact(rs[i].text) = t})]
         IN  {t \in DOMAIN counts : counts[t] >= c.rep_min_occurrences}

RECURSIVE SumSeq(_)
SumSeq(xs) == IF xs = <<>> THEN 0 ELSE xs[1] + SumSeq(Tail(xs))

-----------------------------------------------------------------------------
(* heuristics.py. Ratios, page-top distances and z-scores are in hundredths,
   the gap multiplier in tenths. *)

\* NUM_PATTERN.match(text): optional blanks, digits, one or more ".digits"
\* groups and a blank
NUM_PATTERN_match(text) ==
    LET b == SkipWS(text, 1)
        e == NumberEnd(text, b)
    IN  /\ Len(Segments(text, b, e)) >= 2
        /\ e <= Len(text)
        /\ IsSpace(text[e])

\* is_bullet_like: the stripped text starts with -, a bullet or * and a blank
is_bullet_like(text) ==
    LET t == Strip(text)
    IN  /\ Len(t) >= 2
        /\ t[1] \in {"-", "bullet", "*"}
        /\ IsSpace(t[2])

norm_text(text) == Lower(JoinSpace(Split(Strip(text))))

\* page_counts[page][t_norm] after the first loop of detect_headings
PageCount(rs, c, page, t_norm) ==
    Cardinality({j \in DOMAIN rs :
        /\ rs[j].page_index0 = page
        /\ rs[j].word_count > 0 /\ rs[j].word_count <= c.rep_max_words
        /\ norm_text(rs[j].text) # <<>>
        /\ norm_text(rs[j].text) = t_norm})

\* a row the recipe back-link may force
RecipeTitleLike(r, c) ==
    /\ r.word_count >= c.rec_min_title_words
    /\ r.word_count <= c.rec_max_title_words
    /\ ~EndsWithChar(Strip(r.text), ":")
    /\ ~is_bullet_like(Strip(r.text))

\* the back-link that looks at the row right before the label only
recipe_forced_indices_previous_row(rs, c) ==
    IF ~c.rec_enable THEN {}
    ELSE {j \in DOMAIN rs :
            /\ j + 1 \in DOMAIN rs
            /\ Lower(Strip(rs[j + 1].text)) \in {Lower(l) : l \in c.rec_labels}
            /\ c.rec_back_look_lines >= 1
            /\ RecipeTitleLike(rs[j], c)}

\* recipe_forced_indices: for each label row, the nearest row before it,
\* within back_look_lines, that is title-like
recipe_forced_indices(rs, c) ==
    IF ~c.rec_enable THEN {}
    ELSE {j \in DOMAIN rs :
            \E i \in DOMAIN rs :
                /\ Lower(Strip(rs[i].text)) \in {Lower(l) : l \in c.rec_labels}
                /\ j < i /\ j >= i - c.rec_back_look_lines
                /\ RecipeTitleLike(rs[j], c)
                /\ \A m \in (j + 1)..(i - 1) : ~RecipeTitleLike(rs[m], c)}

\* the bullets the lookahead counts from row j on, up to row limit: it stops
\* before a row of another page and after a row of more than 25 words
RECURSIVE BulletsAhead(_, _, _, _, _)
BulletsAhead(rs, flags, page, j, limit) ==
    IF j > limit THEN 0
    ELSE IF rs[j].page_index0 # page THEN 0
    ELSE (IF flags[j] THEN 1 ELSE 0)
             + (IF rs[j].word_count > 25 THEN 0
                ELSE BulletsAhead(rs, flags, page, j + 1, limit))

context_bonus_indices(rs, c) ==
    IF ~c.ctx_enable THEN {}
    ELSE LET flags == [j \in DOMAIN rs |-> is_bullet_like(rs[j].text)]
         IN  {i \in DOMAIN rs :
                /\ ~(rs[i].word_count = 0 \/ rs[i].word_count > 12)
                /\ BulletsAhead(rs, flags, rs[i].page_index0, i + 1,
                                Min(Len(rs), i + c.ctx_k_lookahead)) >= c.ctx_min_bullets}

\* the points and the rules fired of row i before the recipe force: the
\* scoring rules of the loop of detect_headings, in the order of the source
BaseScore(rs, i, c, repeated_titles, context_bonus) ==
    LET row == rs[i]
        t_norm == norm_text(row.text)
        above_z == row.gap_above_z >= c.sp_z_above_min
        above_ok == above_z /\ ~(c.sp_first_line_on_page_ignore_above
                                    /\ row.vertical_gap = row.y_position)
        below_ok == row.gap_below_z >= c.sp_z_below_min
        hits == <<
            <<row.font_size_ratio < 100, c.rel_font_below_body_penalty, 0>>,
            <<row.font_size_ratio > c.rel_font_size_threshold, c.rel_font_size_score, 1>>,
            <<row.is_bold_majority, c.is_bold_score, 1>>,
            <<row.page_top_distance <= c.top_pct_threshold, c.top_pct_score, 1>>,
            <<10 * row.vertical_gap > c.vertical_gap_multiplier * row.line_font_size,
              c.vertical_gap_score, 1>>,
            <<row.char_count <= c.max_heading_chars, c.short_line_score, 1>>,
            <<row.char_count <= c.very_short_char_threshold, c.very_short_line_score, 1>>,
            <<row.has_numeric_prefix, c.has_numeric_prefix_score, 1>>,
            <<row.ends_with_colon, c.ends_with_colon_score, 1>>,
            <<row.title_case_ratio_ge_60, c.title_case_score, 1>>,
            <<row.uppercase_ratio_ge_60 /\ row.char_count <= 60, c.uppercase_ratio_score, 1>>,
            <<row.ends_with_period /\ ~row.has_numeric_prefix, c.ends_with_period_penalty, 0>>,
            <<c.rep_enable /\ row.word_count <= c.rep_max_words
                  /\ _norm_exact(row.text) \in repeated_titles, c.rep_boost_score, 1>>,
            <<c.rep_enable /\ c.rep_block_scope = "page" /\ t_norm # <<>>
                  /\ row.word_count <= c.rep_max_words
                  /\ PageCount(rs, c, row.page_index0, t_norm) >= c.rep_min_occurrences_block,
              c.rep_block_bonus, 1>>,
            <<c.sp_enable /\ above_ok /\ below_ok, c.sp_both_sides_bonus, 1>>,
            <<c.sp_enable /\ ~(above_ok /\ below_ok) /\ (above_ok \/ below_ok),
              c.sp_one_side_bonus, 1>>,
            <<i \in context_bonus, c.ctx_bullet_block_bonus, 1>> >>
    IN  [score |-> SumSeq([k \in DOMAIN hits |-> IF hits[k][1] THEN hits[k][2] ELSE 0]),
         rules_fired |-> SumSeq([k \in DOMAIN hits |-> IF hits[k][1] THEN hits[k][3] ELSE 0])]

\* kw_set of detect_headings
kw_set(c) == IF c.kw_enabled THEN {Strip(Lower(k)) : k \in c.kw_list} ELSE {}

\* the acceptance test without the numeric force-pick
AcceptNoForcePick(score, rules_fired, force_pick, forced, c) ==
    \/ score >= c.heading_score_threshold
    \/ rules_fired >= c.min_rules_fired /\ score >= c.heading_score_threshold - 1
    \/ forced

\* accept of detect_headings
Accept(score, rules_fired, force_pick, forced, c) ==
    \/ score >= c.heading_score_threshold
    \/ rules_fired >= c.min_rules_fired /\ score >= c.heading_score_threshold - 1
    \/ force_pick
    \/ forced

\* one turn of the scoring loop for row i: final score, rules fired and accept
ScoreRow(rs, i, c, repeated_titles, recipe_forced, context_bonus) ==
    LET row == rs[i]
        base == BaseScore(rs, i, c, repeated_titles, context_bonus)
        forced == i \in recipe_forced
        s15 == IF forced
               THEN base.score + Max(0, c.heading_score_threshold - base.score) + 1
               ELSE base.score
        fired == base.rules_fired + (IF forced THEN 1 ELSE 0)
        s16 == IF is_bullet_like(row.text) /\ s15 < c.heading_score_threshold + 1
               THEN s15 - 1 ELSE s15
        in_frontmatter == IF c.kw_frontmatter_only
                          THEN row.page_num1 <= c.force_h1_max_page ELSE TRUE
        s17 == IF /\ c.kw_enabled /\ row.char_count <= c.kw_max_chars
                  /\ in_frontmatter /\ s16 >= c.kw_apply_if_score_at_least
                  /\ Lower(Strip(row.text)) \in kw_set(c)
               THEN s16 + Min(c.kw_boost_score, c.kw_max_extra) ELSE s16
        force_pick == NUM_PATTERN_match(row.text)
    IN  [score |-> s17, rules_fired |-> fired, forced |-> forced,
         force_pick |-> force_pick,
         accept |-> Accept(s17, fired, force_pick, forced, c)]

\* HeadingCandidate(...) built from an accepted row
HeadingCandidateOf(row, score) ==
    [page_index0 |-> row.page_index0, page_num1 |-> row.page_num1, text |-> row.text,
     score |-> score, font_size_ratio |-> row.font_size_ratio,
     page_top_distance |-> row.page_top_distance, y_position |-> row.y_position,
     is_bold_majority |-> row.is_bold_majority, vertical_gap |-> row.vertical_gap,
     char_count |-> row.char_count, word_count |-> row.word_count,
     has_numeric_prefix |-> row.has_numeric_prefix,
     center_deviation |-> row.center_deviation]

RECURSIVE DetectLoop(_, _, _, _, _, _)
DetectLoop(rs, i, c, repeated_titles, recipe_forced, context_bonus) ==
    IF i > Len(rs) THEN <<>>
    ELSE LET r == ScoreRow(rs, i, c, repeated_titles, recipe_forced, context_bonus)
         IN  (IF r.accept THEN <<HeadingCandidateOf(rs[i], r.score)>> ELSE <<>>)
                 \o DetectLoop(rs, i + 1, c, repeated_titles, recipe_forced, context_bonus)

\* detect_headings(feature_rows, cfg, repeated_titles)
detect_headings(feature_rows, c, repeated_titles) ==
    LET rs == SortHeadings(feature_rows, Len(feature_rows))
    IN  DetectLoop(rs, 1, c, repeated_titles,
                   recipe_forced_indices(rs, c), context_bonus_indices(rs, c))

-----------------------------------------------------------------------------
(* semantic_filter.py. min_alpha_ratio is in hundredths. A tagging model is a
   record: loaded is FALSE for None, content is the set of texts in which
   the tagger finds a token of a content class. *)

\* _NUM_RE.match(text): optional blanks and a digit
_NUM_RE_match(text) == DigitsEnd(text, SkipWS(text, 1)) > SkipWS(text, 1)

_passes_alpha_ratio(text, min_ratio) ==
    LET letters == Len(SelectSeq(text, IsAlpha))
        total == Len(SelectSeq(text, LAMBDA ch : ~IsSpace(ch)))
    IN  total # 0 /\ 100 * letters >= min_ratio * total

_looks_all_caps_acronym(text, minlen) ==
    LET letters == SelectSeq(text, IsAlpha)
    IN  Len(letters) >= minlen /\ letters # <<>> /\ \A i \in DOMAIN letters : IsUpper(letters[i])

\* an alphabetic token of more than 2 characters needs 3 letters in a row
HasAlphaRun3(text) ==
    \E i \in 1..(Len(text) - 2) : IsAlpha(text[i]) /\ IsAlpha(text[i + 1]) /\ IsAlpha(text[i + 2])

_spacy_semantically_ok(text, model, require_content_pos) ==
    \/ ~require_content_pos
    \/ HasAlphaRun3(text) /\ text \in model.content

\* the candidate is kept although it fails the alphabetic ratio
KeepsCandidate_no_alpha_check(hc, c, model) ==
    LET text == Strip(hc.text)
    IN  IF _NUM_RE_match(text) THEN TRUE
        ELSE IF _looks_all_caps_acronym(text, c.sf_accept_all_caps_minlen) THEN TRUE
        ELSE IF Len(text) > c.sf_max_chars THEN TRUE
        ELSE IF c.sf_use_spacy /\ model.loaded
             THEN _spacy_semantically_ok(text, model, c.sf_require_content_pos)
        ELSE TRUE

\* one turn of the loop of filter_candidates: whether the candidate is appended
KeepsCandidate(hc, c, model) ==
    LET text == Strip(hc.text)
    IN  IF _NUM_RE_match(text) THEN TRUE
        ELSE IF ~_passes_alpha_ratio(text, c.sf_min_alpha_ratio) THEN FALSE
        ELSE IF _looks_all_caps_acronym(text, c.sf_accept_all_caps_minlen) THEN TRUE
        ELSE IF Len(text) > c.sf_max_chars THEN TRUE
        ELSE IF c.sf_use_spacy /\ model.loaded
             THEN _spacy_semantically_ok(text, model, c.sf_require_content_pos)
        ELSE TRUE

\* the kept candidates, last first
filter_candidates_keep_order_reversed(cands, c, model) ==
    IF ~c.sf_enable THEN cands
    ELSE LET kept == SelectSeq(cands, LAMBDA hc : KeepsCandidate(hc, c, model))
         IN  [i \in DOMAIN kept |-> kept[Len(kept) + 1 - i]]

\* filter_candidates(cands, cfg), model being what _get_nlp_by_model returned
filter_candidates(cands, c, model) ==
    IF ~c.sf_enable THEN cands
    ELSE SelectSeq(cands, LAMBDA hc : KeepsCandidate(hc, c, model))

-----------------------------------------------------------------------------
(* level_classifier.py (threshold strategy) and promotion.py. Font ratios,
   page-top distances, thresholds and quantiles are in hundredths. *)

\* _NUM_SINGLE_OR_NESTED.match(text): the dots of the leading number, which a
\* blank or the end of the text must follow; -1 when there is no match
NumberDots(text) ==
    LET b == SkipWS(text, 1)
        e == NumberEnd(text, b)
    IN  IF e = b THEN -1
        ELSE IF e <= Len(text) /\ ~IsSpace(text[e]) THEN -1
        ELSE Len(Segments(text, b, e)) - 1

\* _infer_level_from_numbering with the dots taken for the depth
_infer_level_from_numbering_dots(text) ==
    LET depth == NumberDots(text)
    IN  IF NumberDots(text) = -1 THEN "None"
        ELSE IF depth <= 1 THEN "H1"
        ELSE IF depth = 2 THEN "H2"
        ELSE "H3"

_infer_level_from_numbering(text) ==
    LET depth == NumberDots(text) + 1
    IN  IF NumberDots(text) = -1 THEN "None"
        ELSE IF depth <= 1 THEN "H1"
        ELSE IF depth = 2 THEN "H2"
        ELSE "H3"

\* _decide_level without the tests of the page-top distance
_decide_level_font_only(text, font_size_ratio, page_top_distance, c) ==
    LET lvl == _infer_level_from_numbering(text)
    IN  IF lvl # "None" THEN lvl
        ELSE IF font_size_ratio >= c.h1_rel_font_min THEN "H1"
        ELSE IF font_size_ratio >= c.h2_rel_font_min THEN "H2"
        ELSE "H3"

_decide_level(text, font_size_ratio, page_top_distance, c) ==
    LET lvl == _infer_level_from_numbering(text)
    IN  IF lvl # "None" THEN lvl
        ELSE IF font_size_ratio >= c.h1_rel_font_min \/ page_top_distance <= c.h1_page_top_pct_max
        THEN "H1"
        ELSE IF font_size_ratio >= c.h2_rel_font_min \/ page_top_distance <= c.h2_page_top_pct_max
        THEN "H2"
        ELSE "H3"

\* use_salience without the tests of enable and of more than one candidate
use_salience_any_count(hcs, c) ==
    LET font_ratios == [i \in DOMAIN hcs |-> hcs[i].font_size_ratio]
        n           == Len(font_ratios)
        squares     == [i \in DOMAIN hcs |-> font_ratios[i] * font_ratios[i]]
    IN  \/ n > 1 /\ n * SumSeq(squares) - SumSeq(font_ratios) * SumSeq(font_ratios)
                        < c.sal_font_ratio_std_epsilon * c.sal_font_ratio_std_epsilon * n * n
        \/ Cardinality({font_ratios[i] : i \in DOMAIN hcs}) <= 2

\* use_salience of assign_levels: pstdev(font_ratios) < epsilon, squared and
\* multiplied by n * n, or at most two distinct ratios
use_salience(hcs, c) ==
    LET font_ratios == [i \in DOMAIN hcs |-> hcs[i].font_size_ratio]
        n           == Len(font_ratios)
        squares     == [i \in DOMAIN hcs |-> font_ratios[i] * font_ratios[i]]
    IN  /\ c.sal_enable
        /\ n > 1
        /\ \/ n * SumSeq(squares) - SumSeq(font_ratios) * SumSeq(font_ratios)
                  < c.sal_font_ratio_std_epsilon * c.sal_font_ratio_std_epsilon * n * n
           \/ Cardinality({font_ratios[i] : i \in DOMAIN hcs}) <= 2

\* the salience strategy. A salience is a record [a, b] that stands for
\* (a + b * sqrt(n / q)) / (200 * m): n candidates, q the sum of the squares of
\* n * vertical_gap - sum(vertical_gaps), m the largest word count. Weights are
\* in halves, quantiles in twentieths.
Sgn(x) == IF x > 0 THEN 1 ELSE IF x < 0 THEN -1 ELSE 0

RECURSIVE GCD(_, _)
GCD(a, b) == IF b = 0 THEN a ELSE GCD(b, a % b)

\* the sign of a / b - c / d for a, c >= 0 and b, d > 0, by continued fractions
RECURSIVE CmpFrac(_, _, _, _)
CmpFrac(a, b, c, d) ==
    LET qa == a \div b
        qc == c \div d
        ra == a % b
        rc == c % d
    IN  IF qa # qc THEN Sgn(qa - qc)
        ELSE IF ra = 0 /\ rc = 0 THEN 0
        ELSE IF ra = 0 THEN -1
        ELSE IF rc = 0 THEN 1
        ELSE -CmpFrac(b, ra, d, rc)

\* the sign of a + b * sqrt(n / q)
SignRoot(a, b, n, q) ==
    IF b = 0 THEN Sgn(a)
    ELSE IF a = 0 \/ Sgn(a) = Sgn(b) THEN Sgn(b)
    ELSE LET g == GCD(Abs(a), Abs(b))
             x == Abs(a) \div g
             y == Abs(b) \div g
         IN  Sgn(a) * CmpFrac(x, y, n * y, q * x)

\* _compute_salience_scores: the saliences with n and q
_compute_salience_scores(hcs, c) ==
    LET n == Len(hcs)
        total == SumSeq([i \in DOMAIN hcs |-> hcs[i].vertical_gap])
        dev == [i \in DOMAIN hcs |-> n * hcs[i].vertical_gap - total]
        q == SumSeq([i \in DOMAIN hcs |-> dev[i] * dev[i]])
        max_words == CHOOSE w \in {hcs[i].word_count : i \in DOMAIN hcs} :
                         \A i \in DOMAIN hcs : hcs[i].word_count <= w
        m == IF max_words > 0 THEN max_words ELSE 1
        B(cond) == IF cond THEN 100 ELSE 0
    IN  [n |-> n, q |-> q,
         scores |-> [i \in DOMAIN hcs |->
            [a |-> m * (c.sal_w_bold * B(hcs[i].is_bold_majority)
                        + c.sal_w_center * (100 - hcs[i].center_deviation)
                        + c.sal_w_topness * (100 - hcs[i].page_top_distance)
                        + c.sal_w_numeric_prefix * B(hcs[i].has_numeric_prefix)
                        + c.sal_w_short_line * B(hcs[i].char_count <= 100))
                    + (IF max_words > 0
                       THEN c.sal_w_word_count_norm * 100 * hcs[i].word_count ELSE 0),
             b |-> IF q = 0 THEN 0 ELSE c.sal_w_vertical_gap_z * 100 * m * dev[i]]]]

\* sorted(vals)
RECURSIVE SortSaliences(_, _, _)
SortSaliences(xs, n, q) ==
    IF xs = <<>> THEN <<>>
    ELSE LET rest == SortSaliences(Tail(xs), n, q)
             x == xs[1]
         IN  SelectSeq(rest, LAMBDA y : SignRoot(x.a - y.a, x.b - y.b, n, q) > 0)
                 \o <<x>>
                 \o SelectSeq(rest, LAMBDA y : SignRoot(x.a - y.a, x.b - y.b, n, q) <= 0)

\* _pick(q) of _quantiles, multiplied by 20; exact says the result is an
\* element of the list and not a rounded sum
_pick(xs, qq) ==
    LET n == Len(xs)
        pos == qq * (n - 1)
        lo == pos \div 20
        hi == Min(lo + 1, n - 1)
        frac == pos % 20
    IN  IF n = 1 THEN [a |-> 20 * xs[1].a, b |-> 20 * xs[1].b, exact |-> TRUE]
        ELSE [a |-> (20 - frac) * xs[lo + 1].a + frac * xs[hi + 1].a,
              b |-> (20 - frac) * xs[lo + 1].b + frac * xs[hi + 1].b,
              exact |-> frac = 0]

\* val >= cut: where the two are equal and the cut is a rounded sum, the
\* floating-point sum is above or below val, and ge_on_tie says which
AtLeastCut(val, cut, n, q, ge_on_tie) ==
    LET sign == SignRoot(20 * val.a - cut.a, 20 * val.b - cut.b, n, q)
    IN  IF sign # 0 THEN sign > 0 ELSE cut.exact \/ ge_on_tie

_map_by_quantile(val, q_h1, q_h2, n, q, ge1, ge2) ==
    IF AtLeastCut(val, q_h1, n, q, ge1) THEN "H1"
    ELSE IF AtLeastCut(val, q_h2, n, q, ge2) THEN "H2"
    ELSE "H3"

\* _mk_label
_mk_label(hc, level) ==
    [level |-> level, page_index0 |-> hc.page_index0, page_num1 |-> hc.page_num1,
     text |-> hc.text, score |-> hc.score, font_size_ratio |-> hc.font_size_ratio,
     page_top_distance |-> hc.page_top_distance, y_position |-> hc.y_position]

\* the loop of assign_levels when the salience strategy is not chosen
assign_levels_threshold(hcs, c) ==
    [i \in DOMAIN hcs |->
        _mk_label(hcs[i], _decide_level(hcs[i].text, hcs[i].font_size_ratio,
                                        hcs[i].page_top_distance, c))]

\* _assign_levels_salience: the lists it can return, one for each outcome
\* ge1, ge2 of the comparisons of a salience with a rounded quantile equal to it
_assign_levels_salience(hcs, c) ==
    LET sal == _compute_salience_scores(hcs, c)
        xs == SortSaliences(sal.scores, sal.n, sal.q)
        q_h1 == _pick(xs, c.sal_q_h1)
        q_h2 == _pick(xs, c.sal_q_h2)
    IN  {[i \in DOMAIN hcs |->
            _mk_label(hcs[i], _map_by_quantile(sal.scores[i], q_h1, q_h2,
                                               sal.n, sal.q, ge1, ge2))] :
            ge1 \in BOOLEAN, ge2 \in BOOLEAN}

\* promotion.py
_is_numbered(text) == NumTuple(text) # <<>>

RECURSIVE SortInts(_)
SortInts(xs) ==
    IF xs = <<>> THEN <<>>
    ELSE LET rest == SortInts(Tail(xs))
         IN  SelectSeq(rest, LAMBDA y : y <= xs[1]) \o <<xs[1]>>
                 \o SelectSeq(rest, LAMBDA y : y > xs[1])

\* _quantile(xs, q), multiplied by 100 once more
_quantile(xs, q) ==
    LET n    == Len(xs)
        pos  == q * (n - 1)
        lo   == pos \div 100
        hi   == Min(lo + 1, n - 1)
        frac == pos % 100
    IN  IF xs = <<>> THEN 0
        ELSE IF n = 1 THEN xs[1] * 100
        ELSE xs[lo + 1] * (100 - frac) + xs[hi + 1] * frac

\* h.font_size_ratio >= q_h2. When the two sorted ratios the quantile
\* interpolates between are equal to the heading's ratio v, the quantile is the
\* float v * (1 - frac) + v * frac, which rounding can leave above v: the
\* comparison then has the outcome tie_ge.
AtLeastQuantile(ratio, xs, q, tie_ge) ==
    LET n    == Len(xs)
        pos  == q * (n - 1)
        lo   == pos \div 100
        hi   == Min(lo + 1, n - 1)
        frac == pos % 100
    IN  IF n > 1 /\ frac # 0 /\ xs[lo + 1] = ratio /\ xs[hi + 1] = ratio
        THEN tie_ge
        ELSE ratio * 100 >= _quantile(xs, q)

promote_non_numbered(headings, c, tie_ge) ==
    IF ~c.promotion_enable \/ headings = <<>> THEN headings
    ELSE LET ratios == [i \in DOMAIN headings |-> headings[i].font_size_ratio]
             plain  == SelectSeq([i \in DOMAIN headings |-> i],
                                 LAMBDA i : ~_is_numbered(headings[i].text))
             ratios_sorted == SortInts([j \in DOMAIN plain |-> ratios[plain[j]]])
         IN  [i \in DOMAIN headings |->
                 IF /\ ~_is_numbered(headings[i].text)
                    /\ AtLeastQuantile(headings[i].font_size_ratio, ratios_sorted,
                                       c.promotion_h2_q, tie_ge)
                    /\ headings[i].level = "H3"
                 THEN [headings[i] EXCEPT !.level = "H2"]
                 ELSE headings[i]]

-----------------------------------------------------------------------------
(* Texts *)

T_AppendixA == <<"A","p","p","e","n","d","i","x"," ","A",":"," ","D","a","t","a"," ","S","o","u","r","c","e","s">>

T_A1 == <<"A",".","1"," ","R","a","w"," ","T","a","b","l","e","s">>

T_2_1 == <<"2",".","1"," ","B","a","c","k","g","r","o","u","n","d">>

T_Scope == <<"2"," ","S","c","o","p","e">>

T_Deep == <<"2",".","1",".","1"," ","D","e","e","p">>

T_ScopeOf == <<"2"," ","S","c","o","p","e"," ","o","f">>

T_Summary == <<"S","u","m","m","a","r","y">>

T_SummaryColon == <<"S","u","m","m","a","r","y",":">>

T_SummaryOf == <<"S","u","m","m","a","r","y",":"," ","o","f">>

T_of == <<"o","f">>

T_Of == <<"O","f">>

Levels == {"H1", "H2", "H3"}

\* the lists of at most n elements of S
SeqsUpTo(S, n) == UNION {[1..k -> S] : k \in 0..n}

-----------------------------------------------------------------------------
(* Configuration (common/config.py) *)

DefaultCfg ==
    [appendix_base_level    |-> 2,
     appendix_children_bump |-> 1,
     min_toc_entries        |-> 1,
     min_core_chars         |-> 3,
     page_mode              |-> "index1",
     page_offset            |-> 0,
     kw_enabled             |-> TRUE,
     kw_list                |-> {},
     force_h1_if_early      |-> TRUE,
     force_h1_max_page      |-> 5,
     drop_first_page_headings_from_outline |-> FALSE,
     rep_enable             |-> TRUE,
     rep_min_occurrences    |-> 3,
     rep_max_words          |-> 8,
     h1_rel_font_min        |-> 180,
     h1_page_top_pct_max    |-> 4,
     h2_rel_font_min        |-> 145,
     h2_page_top_pct_max    |-> 8,
     sal_enable             |-> TRUE,
     sal_font_ratio_std_epsilon |-> 15,
     promotion_enable       |-> TRUE,
     promotion_h2_q         |-> 85,
     max_heading_chars      |-> 100,
     rel_font_size_threshold |-> 115,
     top_pct_threshold      |-> 15,
     vertical_gap_multiplier |-> 15,
     rel_font_size_score    |-> 2,
     is_bold_score          |-> 2,
     top_pct_score          |-> 1,
     vertical_gap_score     |-> 1,
     short_line_score       |-> 1,
     has_numeric_prefix_score |-> 2,
     ends_with_colon_score  |-> 2,
     title_case_score       |-> 1,
     uppercase_ratio_score  |-> 1,
     ends_with_period_penalty |-> -1,
     rel_font_below_body_penalty |-> -2,
     very_short_char_threshold |-> 20,
     very_short_line_score  |-> 1,
     heading_score_threshold |-> 6,
     min_rules_fired        |-> 3,
     kw_boost_score         |-> 2,
     kw_max_extra           |-> 1,
     kw_apply_if_score_at_least |-> 5,
     kw_max_chars           |-> 80,
     kw_frontmatter_only    |-> TRUE,
     rep_boost_score        |-> 2,
     rep_min_occurrences_block |-> 2,
     rep_block_scope        |-> "page",
     rep_block_bonus        |-> 2,
     sp_enable              |-> TRUE,
     sp_z_above_min         |-> 120,
     sp_z_below_min         |-> 100,
     sp_both_sides_bonus    |-> 2,
     sp_one_side_bonus      |-> 1,
     sp_first_line_on_page_ignore_above |-> TRUE,
     ctx_enable             |-> TRUE,
     ctx_k_lookahead        |-> 5,
     ctx_min_bullets        |-> 2,
     ctx_bullet_block_bonus |-> 2,
     rec_enable             |-> TRUE,
     rec_back_look_lines    |-> 8,
     rec_labels             |-> {<<"i","n","g","r","e","d","i","e","n","t","s",":">>,
                                 <<"i","n","s","t","r","u","c","t","i","o","n","s",":">>,
                                 <<"m","e","t","h","o","d",":">>,
                                 <<"d","i","r","e","c","t","i","o","n","s",":">>},
     rec_min_title_words    |-> 1,
     rec_max_title_words    |-> 6,
     sf_enable              |-> TRUE,
     sf_use_spacy           |-> TRUE,
     sf_max_chars           |-> 120,
     sf_min_alpha_ratio     |-> 50,
     sf_accept_all_caps_minlen |-> 2,
     sf_require_content_pos |-> TRUE,
     sal_q_h1               |-> 17,
     sal_q_h2               |-> 10,
     sal_w_bold             |-> 4,
     sal_w_center           |-> 4,
     sal_w_vertical_gap_z   |-> 2,
     sal_w_topness          |-> 2,
     sal_w_numeric_prefix   |-> 2,
     sal_w_short_line       |-> 1,
     sal_w_word_count_norm  |-> -1]

\* appendix_base_level and appendix_children_bump are unchecked integers
AppendixBaseLevels == {0, 2, 4}

AppendixChildrenBumps == {-1, 1, 2}

HierarchyCfgs ==
    {[DefaultCfg EXCEPT !.appendix_base_level = b, !.appendix_children_bump = c] :
        b \in AppendixBaseLevels, c \in AppendixChildrenBumps}

-----------------------------------------------------------------------------
(* Renormalization on its own *)

RenormTexts == {T_AppendixA, T_A1, T_2_1, T_Scope, T_Deep, T_Summary}

RenormItems == [level : Levels, text : RenormTexts, page : {1}, score : {5}]

InitRenorm ==
    /\ pc = "renorm_start"
    /\ NoBatch
    /\ cfg \in HierarchyCfgs
    /\ raw_outline \in SeqsUpTo(RenormItems, MaxItems)
    /\ labeled_headings = <<>>
    /\ outline = <<>>
    /\ heading_candidates = <<>>
    /\ output = <<>>
    /\ rows = <<>>
    /\ repeated = {}

\* outline = renormalize_by_number_tree(raw_outline, ...): the entries of the
\* argument are assigned in place and are the entries of the result
Renormalize ==
    /\ pc = "renorm_start"
    /\ outline' = renormalize_by_number_tree(raw_outline,
                      cfg.appendix_base_level, cfg.appendix_children_bump)
    /\ raw_outline' = outline'
    /\ pc' = "renormalized"
    /\ UNCHANGED <<cfg, heading_candidates, labeled_headings, output, rows, repeated, nlp, batch_vars, doc_vars>>

NextRenorm == Renormalize

SpecRenorm == InitRenorm /\ [][NextRenorm]_vars

-----------------------------------------------------------------------------
(* build_outline on labeled headings *)

\* the default hierarchy, one below the range and one above it; a keyword
\* list that forces 'of' to H1 on page 1; the first page dropped
OutlineCfgs ==
    {[DefaultCfg EXCEPT !.appendix_base_level = 0, !.appendix_children_bump = -1],
     DefaultCfg,
     [DefaultCfg EXCEPT !.appendix_base_level = 4, !.appendix_children_bump = 2],
     [DefaultCfg EXCEPT !.kw_list = {T_of}, !.force_h1_max_page = 1],
     [DefaultCfg EXCEPT !.drop_first_page_headings_from_outline = TRUE]}

OutlineTexts == {T_Scope, T_Deep, T_of, T_ScopeOf, T_AppendixA}

\* The labeled headings reach build_outline in the order detect_headings
\* emitted them, by (page_index0, y_position); page_num1 is the page number of
\* the "index1" mode with offset 0.
InitOutline ==
    /\ pc = "labeled"
    /\ NoBatch
    /\ cfg \in OutlineCfgs
    /\ \E n \in 0..MaxHeadings :
         \E k \in 0..n :
           \E body \in [1..n -> [level : Levels, text : OutlineTexts]] :
             labeled_headings =
                 [i \in 1..n |->
                     [level       |-> body[i].level,
                      text        |-> body[i].text,
                      score       |-> 5,
                      page_index0 |-> IF i <= k THEN 0 ELSE 1,
                      page_num1   |-> IF i <= k THEN 1 ELSE 2,
                      y_position  |-> IF i <= k THEN i ELSE i - k]]
    /\ raw_outline = <<>>
    /\ outline = <<>>
    /\ heading_candidates = <<>>
    /\ output = <<>>
    /\ rows = <<>>
    /\ repeated = {}

\* structured_outline = build_outline(labeled_headings, cfg); the argument is
\* sorted in place
BuildOutline ==
    /\ pc = "labeled"
    /\ labeled_headings' = SortHeadings(labeled_headings, Len(labeled_headings))
    /\ outline' = build_outline(labeled_headings, cfg)
    /\ pc' = "outlined"
    /\ UNCHANGED <<cfg, heading_candidates, raw_outline, output, rows, repeated, nlp, batch_vars, doc_vars>>

NextOutline == BuildOutline

SpecOutline == InitOutline /\ [][NextOutline]_vars

-----------------------------------------------------------------------------
(* Claims about renormalization *)

IsAppendixEntry(e) == APP_RE_match(Strip(e.text))

IsNumberedEntry(e) == ~IsAppendixEntry(e) /\ NumTuple(Strip(e.text)) # <<>>

\* C4: hierarchy renormalization is idempotent: renormalize_by_number_tree
\* applied to its own output returns that output (levels, texts, pages, order),
\* for every appendix_base_level and appendix_children_bump.
C4_RenormIdempotent ==
    pc = "renormalized" =>
        renormalize_by_number_tree(outline, cfg.appendix_base_level,
                                   cfg.appendix_children_bump) = outline

\* an output with an appendix marker, a numbered child levelled by the bump and
\* an entry that is neither
C4_Witness ==
    /\ pc = "renormalized"
    /\ Len(outline) = 3
    /\ IsAppendixEntry(outline[1])
    /\ IsNumberedEntry(outline[2])
    /\ outline[2].level = FmtLevel(clamp(cfg.appendix_base_level + cfg.appendix_children_bump))
    /\ outline[2].level # outline[1].level
    /\ outline[3].text = T_Summary

\* C6: with appendix_base_level = 2 and appendix_children_bump = 1 the entry
\* 'Appendix A: Data Sources' gets H2 and a following 'A.1 Raw Tables' gets H3,
\* whatever level it had before.
C6_AppendixScenario ==
    (pc = "renormalized" /\ cfg.appendix_base_level = 2 /\ cfg.appendix_children_bump = 1) =>
        \A i \in DOMAIN outline :
            outline[i].text = T_AppendixA =>
                /\ outline[i].level = "H2"
                /\ (i + 1 \in DOMAIN outline /\ outline[i + 1].text = T_A1)
                       => outline[i + 1].level = "H3"

\* C20: renormalize_by_number_tree leaves the list it is given and every entry
\* of it as they were: the caller's outline has the same levels after the call.
C20_RenormPure == [][Renormalize => raw_outline' = raw_outline]_vars

-----------------------------------------------------------------------------
(* Claims about build_outline *)

\* C1: the outline returned by build_outline has no two entries with the same
\* (page, normalized text).
C1_NoDuplicateKey ==
    pc = "outlined" =>
        \A i, j \in DOMAIN outline :
            i < j => ~(/\ outline[i].page = outline[j].page
                       /\ _normalize_text(outline[i].text) = _normalize_text(outline[j].text))

\* the depth of a level name
Depth(level) == CHOOSE n \in 0..9 : FmtLevel(n) = level

\* C2: in the outline returned by build_outline every entry is at most one
\* level deeper than the entry before it.
C2_NoLevelJump ==
    pc = "outlined" =>
        \A i \in DOMAIN outline :
            i > 1 => Depth(outline[i].level) <= Depth(outline[i - 1].level) + 1

\* C3: every entry of the outline returned by build_outline has level H1, H2
\* or H3, whatever the input levels, appendix_base_level,
\* appendix_children_bump and the depth of the numbering.
C3_LevelsInRange ==
    pc = "outlined" => \A i \in DOMAIN outline : outline[i].level \in Levels

\* an appendix base above the range, and a number two levels below a parent
\* that is itself at H2
C3_Witness ==
    /\ pc = "outlined"
    /\ \/ /\ cfg.appendix_base_level = 4
          /\ \E i, j \in DOMAIN outline :
                /\ i < j
                /\ IsAppendixEntry(outline[i])
                /\ IsNumberedEntry(outline[j])
                /\ outline[i].level = "H3"
                /\ outline[j].level = "H3"
       \/ /\ Len(outline) = 3
          /\ outline[1].text = T_Scope /\ outline[1].level = "H1"
          /\ outline[2].text = T_Scope /\ outline[2].level = "H2"
          /\ outline[3].text = T_Deep /\ outline[3].level = "H3"


\* the positions in hs, from i on, that the entries of o from j on come from,
\* each entry matched to the first heading after the previous match that has
\* its page and whose text it starts with; <<0>> when an entry has none
RECURSIVE Origins(_, _, _, _)
Origins(o, hs, j, i) ==
    IF j > Len(o) THEN <<>>
    ELSE IF i > Len(hs) THEN <<0>>
    ELSE LET t == Strip(hs[i].text)
         IN  IF /\ o[j].page = hs[i].page_num1
                /\ Len(t) <= Len(o[j].text)
                /\ SubSeq(o[j].text, 1, Len(t)) = t
             THEN <<i>> \o Origins(o, hs, j + 1, i + 1)
             ELSE Origins(o, hs, j, i + 1)

\* C11: the outline build_outline returns is sorted by page, and its entries
\* follow one another as the headings they come from do by page and vertical
\* position: no entry stands before one that preceded it.
C11_OrderPreserved ==
    pc = "outlined" =>
        LET from == Origins(outline, labeled_headings, 1, 1)
        IN  /\ \A j \in 1..(Len(outline) - 1) : outline[j].page <= outline[j + 1].page
            /\ Len(from) = Len(outline)
            /\ \A j \in DOMAIN from : from[j] # 0
            /\ \A j \in 1..(Len(from) - 1) :
                   LET a == labeled_headings[from[j]]
                       b == labeled_headings[from[j + 1]]
                   IN  \/ a.page_index0 < b.page_index0
                       \/ (a.page_index0 = b.page_index0 /\ a.y_position < b.y_position)

\* an outline over two pages, the first entry with a shard merged into it
C11_Witness ==
    /\ pc = "outlined"
    /\ Len(labeled_headings) = 3
    /\ Len(outline) = 2
    /\ outline[1].page < outline[2].page
    /\ outline[1].text = T_ScopeOf
    /\ labeled_headings[1].text = T_Scope
    /\ labeled_headings[2].text = T_of

-----------------------------------------------------------------------------
(* The merge pass on its own *)

MaxShards == 3

T_To_dash == <<"T","o"," ","-">>

T_of_the_day == <<"o","f"," ","t","h","e"," ","d","a","y">>

T_2p1 == <<"2",".","1">>

MergeTexts == {T_SummaryColon, T_of, T_To_dash, T_of_the_day, T_2p1}

\* same page and level, same page only, same level only
MergePlaces == {<<1, "H2">>, <<1, "H3">>, <<2, "H3">>}

MergeScores == {3, 5}

InitMerge ==
    /\ pc = "merge_start"
    /\ NoBatch
    /\ cfg = DefaultCfg
    /\ \E n \in 0..MaxShards :
         \E body \in [1..n -> [text : MergeTexts, place : MergePlaces, score : MergeScores]] :
            raw_outline = [i \in 1..n |->
                              [level |-> body[i].place[2], text |-> body[i].text,
                               page  |-> body[i].place[1], score |-> body[i].score]]
    /\ labeled_headings = <<>>
    /\ outline = <<>>
    /\ heading_candidates = <<>>
    /\ output = <<>>
    /\ rows = <<>>
    /\ repeated = {}

\* outline = _merge_trailing_short_tokens(outline): the kept dicts of the
\* argument take the joined text and the larger score
MergeTrailingShortTokens ==
    /\ pc = "merge_start"
    /\ outline' = _merge_trailing_short_tokens(raw_outline)
    /\ raw_outline' = MergeArgumentAfter(raw_outline)
    /\ pc' = "merged"
    /\ UNCHANGED <<cfg, heading_candidates, labeled_headings, output, rows, repeated, nlp, batch_vars, doc_vars>>

NextMerge == MergeTrailingShortTokens

SpecMerge == InitMerge /\ [][NextMerge]_vars

-----------------------------------------------------------------------------
(* Claims about the merge pass *)

\* a title-case or upper-case alphabetic shape: at least three letters, and a
\* word that starts with a capital or no lower-case letter at all
TitleOrUpperShape(text) ==
    /\ Cardinality({i \in DOMAIN text : IsAlpha(text[i])}) >= 3
    /\ \/ \E i \in DOMAIN text : IsUpper(text[i]) /\ (i = 1 \/ IsSpace(text[i - 1]))
       \/ \A i \in DOMAIN text : text[i] \notin LowerChars

\* the condition of C7 on the entry kept last and the next entry
ShardCondition(earlier, later) ==
    /\ later.page = earlier.page
    /\ later.level = earlier.level
    /\ Len(Split(later.text)) \in {1, 2}
    /\ ~IsDigit(later.text[1])
    /\ ~TitleOrUpperShape(later.text)
    /\ \/ earlier.text[Len(earlier.text)] \in {":", "-", "emdash"}
       \/ (earlier.score - later.score) \in -1..1

\* the merge pass follows the rule on the step from the first n entries to the
\* first n + 1, with `result` the outcome for the n + 1 entries
ShardStepOK(items, n, result) ==
    LET before  == _merge_trailing_short_tokens(SubSeq(items, 1, n))
        earlier == before[Len(before)]
        later   == items[n + 1]
    IN  IF ShardCondition(earlier, later)
        THEN /\ Len(result) = Len(before)
             /\ SubSeq(result, 1, Len(before) - 1) = SubSeq(before, 1, Len(before) - 1)
             /\ result[Len(result)].text = earlier.text \o <<" ">> \o later.text
             /\ result[Len(result)].page = earlier.page
             /\ result[Len(result)].level = earlier.level
             /\ result[Len(result)].score = Max(earlier.score, later.score)
        ELSE result = Append(before, later)

-----------------------------------------------------------------------------
(* The writer on its own: an outline of up to MaxOutline entries, as
   build_outline or the tagged extractor hand it over (stripped texts, scores
   that may be negative), and one call of make_output_from_outline. *)

MaxOutline == 3

T_Intro == <<"I","n","t","r","o">>
T_a_a_a == <<"a"," ","a"," ","a">>
T_ab    == <<"a","b">>

TitleTexts  == {T_Summary, T_Intro, T_a_a_a, T_ab}
TitleLevels == {"H1", "H2"}
TitleScores == {-1, 3, 7}

TitleEntries == [level : TitleLevels, text : TitleTexts, page : {1}, score : TitleScores]

InitTitle ==
    /\ pc = "outline_ready"
    /\ NoBatch
    /\ cfg = DefaultCfg
    /\ labeled_headings = <<>>
    /\ raw_outline = <<>>
    /\ outline \in SeqsUpTo(TitleEntries, MaxOutline)
    /\ heading_candidates = <<>>
    /\ output = <<>>
    /\ rows = <<>>
    /\ repeated = {}

MakeOutputFromOutline ==
    /\ pc \in {"outline_ready", "outlined"}
    /\ output' = make_output_from_outline(outline)
    /\ pc' = "written"
    /\ UNCHANGED <<cfg, heading_candidates, labeled_headings, raw_outline, outline, rows, repeated, nlp, batch_vars, doc_vars>>

NextTitle == MakeOutputFromOutline

SpecTitle == InitTitle /\ [][NextTitle]_vars

\* garbage as the title rule describes it: fewer than three non-blank
\* characters, or nothing but one character repeated, blanks aside
GarbageShape(text) ==
    \/ Len(SelectSeq(text, LAMBDA c : ~IsSpace(c))) < 3
    \/ \A i, j \in DOMAIN text :
           (~IsSpace(text[i]) /\ ~IsSpace(text[j])) => LowerChar(text[i]) = LowerChar(text[j])

H1Entries(o) == {i \in DOMAIN o : o[i].level = "H1"}

\* C8: when the outline has an H1 entry whose text is not garbage (fewer than
\* three non-blank characters, or one repeated character), the selected title
\* is the text of a highest-scoring such entry; 'Summary' counts as not garbage.
C8_TitleIsBestH1 ==
    pc = "written" =>
        LET good == {i \in H1Entries(outline) : ~GarbageShape(outline[i].text)}
        IN  good # {} =>
                \E i \in good :
                    /\ \A j \in good : outline[j].score <= outline[i].score
                    /\ output.title = outline[i].text

\* C9: the fallbacks of the title. No H1 entry passes the garbage check: the
\* text of the first H1 entry. No H1 entry at all: the text of the first
\* entry. Empty outline: 'Untitled Document' and an empty emitted outline.
C9_TitleFallbacks ==
    pc = "written" =>
        /\ outline = <<>> => (output.title = T_Untitled /\ output.outline = <<>>)
        /\ (outline # <<>> /\ H1Entries(outline) = {}) => output.title = outline[1].text
        /\ (/\ H1Entries(outline) # {}
            /\ \A i \in H1Entries(outline) : _looks_garbage(outline[i].text))
           => \E i \in H1Entries(outline) :
                  /\ \A j \in H1Entries(outline) : i <= j
                  /\ output.title = outline[i].text

\* a written outline whose H1 entries all fail the garbage check, the first of
\* them after an entry of another level and with another text
C9_Witness ==
    /\ pc = "written"
    /\ Len(outline) >= 2
    /\ outline[1].level # "H1"
    /\ H1Entries(outline) # {}
    /\ \A i \in H1Entries(outline) : _looks_garbage(outline[i].text)
    /\ output.title # outline[1].text
    /\ output.outline # <<>>

-----------------------------------------------------------------------------
(* The repetition detector on its own: up to MaxRows feature rows, the
   detector switched on or off, and small thresholds. *)

MaxRows == 4

T_Page       == <<"P","a","g","e"," ","1">>
T_page_wide  == <<" ","p","a","g","e"," "," ","1">>
T_hashes     == <<"#","#","#">>
T_end_of_doc == <<"e","n","d"," ","o","f"," ","d","o","c">>
T_dont       == <<"d","o","n","'","t"," ","-","-">>

RepeatTexts == {T_Page, T_page_wide, T_hashes, T_end_of_doc, T_dont}

RepeatMinOccurrences == {2, 3}
RepeatMaxWords == {2, 8}

RepeatCfgs ==
    {[DefaultCfg EXCEPT !.rep_enable = e, !.rep_min_occurrences = m, !.rep_max_words = w] :
        e \in BOOLEAN, m \in RepeatMinOccurrences, w \in RepeatMaxWords}

InitRepeat ==
    /\ pc = "features"
    /\ NoBatch
    /\ cfg \in RepeatCfgs
    /\ labeled_headings = <<>>
    /\ raw_outline = <<>>
    /\ outline = <<>>
    /\ heading_candidates = <<>>
    /\ output = <<>>
    /\ \E texts \in SeqsUpTo(RepeatTexts, MaxRows) :
           rows = [i \in DOMAIN texts |-> FeatureRow(texts[i])]
    /\ repeated = {}

FindRepeatedHeadings ==
    /\ pc = "features"
    /\ repeated' = find_repeated_headings(rows, cfg)
    /\ pc' = "repetition_done"
    /\ UNCHANGED <<cfg, heading_candidates, labeled_headings, raw_outline, outline, output, rows, nlp, batch_vars, doc_vars>>

NextRepeat == FindRepeatedHeadings

SpecRepeat == InitRepeat /\ [][NextRepeat]_vars

\* a text lower-cased, its blanks collapsed
NormalizedText(text) == CollapseWS(Lower(Strip(text)))

\* the rows with a given normalized text and a word count within lo..hi
RowsWith(t, lo, hi) ==
    {i \in DOMAIN rows :
        /\ NormalizedText(rows[i].text) = t
        /\ rows[i].word_count \in lo..hi}

\* C10 as stated: under every configuration, a normalized text that occurs on
\* at least min_occurrences rows of at most max_words words is in the set the
\* detector returns.
C10_RepetitionComplete ==
    pc = "repetition_done" =>
        \A i \in DOMAIN rows :
            LET t == NormalizedText(rows[i].text)
            IN  Cardinality(RowsWith(t, 0, cfg.rep_max_words)) >= cfg.rep_min_occurrences
                    => t \in repeated

\* C10 amended: when the detector is enabled, a normalized text that occurs on
\* at least min_occurrences rows of 1 to max_words words is in the set the
\* detector returns; a disabled detector returns the empty set.
C10_RepetitionCompleteEnabled ==
    pc = "repetition_done" =>
        /\ cfg.rep_enable =>
               \A i \in DOMAIN rows :
                   LET t == NormalizedText(rows[i].text)
                   IN  Cardinality(RowsWith(t, 1, cfg.rep_max_words)) >= cfg.rep_min_occurrences
                           => t \in repeated
        /\ ~cfg.rep_enable => repeated = {}

\* an enabled detector that returns a text met in two spellings, next to rows
\* that are not counted
C10_Witness ==
    /\ pc = "repetition_done"
    /\ cfg.rep_enable
    /\ \E i, j \in DOMAIN rows :
           /\ rows[i].text # rows[j].text
           /\ NormalizedText(rows[i].text) = NormalizedText(rows[j].text)
           /\ NormalizedText(rows[i].text) \in repeated
    /\ \E i \in DOMAIN rows : NormalizedText(rows[i].text) \notin repeated

-----------------------------------------------------------------------------
(* Level assignment, promotion and build_outline in the order of
   run_pipeline, from up to MaxCands scored candidates in page order. *)

MaxCands == 3

LevelTexts  == {T_2_1, T_Scope, T_Summary, T_AppendixA}
FontRatios  == {100, 130, 160}
TopDistance == 50

\* h1.rel_font_min, h1.page_top_pct_max, h2.rel_font_min, h2.page_top_pct_max
LevelThresholds == {<<180, 4, 145, 8>>, <<150, 10, 120, 60>>}

LevelCfgs ==
    {[DefaultCfg EXCEPT !.h1_rel_font_min = t[1], !.h1_page_top_pct_max = t[2],
                        !.h2_rel_font_min = t[3], !.h2_page_top_pct_max = t[4],
                        !.sal_enable = e] :
        t \in LevelThresholds, e \in BOOLEAN}

InitLevels ==
    /\ pc = "candidates"
    /\ NoBatch
    /\ cfg \in LevelCfgs
    /\ \E n \in 0..MaxCands :
         \E k \in 0..n :
           \E body \in [1..n -> [text : LevelTexts, font_size_ratio : FontRatios]] :
             heading_candidates =
                 [i \in 1..n |->
                     [text              |-> body[i].text,
                      score             |-> 5,
                      font_size_ratio   |-> body[i].font_size_ratio,
                      page_top_distance |-> TopDistance,
                      page_index0       |-> IF i <= k THEN 0 ELSE 1,
                      page_num1         |-> IF i <= k THEN 1 ELSE 2,
                      y_position        |-> IF i <= k THEN i ELSE i - k]]
    /\ labeled_headings = <<>>
    /\ raw_outline = <<>>
    /\ outline = <<>>
    /\ output = <<>>
    /\ rows = <<>>
    /\ repeated = {}

\* labeled_headings = assign_levels(heading_candidates, cfg), threshold strategy
AssignLevels ==
    /\ pc = "candidates"
    /\ ~use_salience(heading_candidates, cfg)
    /\ labeled_headings' = assign_levels_threshold(heading_candidates, cfg)
    /\ pc' = "assigned"
    /\ UNCHANGED <<cfg, heading_candidates, raw_outline, outline, output, rows, repeated, nlp, batch_vars, doc_vars>>

\* labeled_headings = promote_non_numbered(labeled_headings, cfg)
PromoteNonNumbered ==
    /\ pc = "assigned"
    /\ \E tie_ge \in BOOLEAN :
         labeled_headings' = promote_non_numbered(labeled_headings, cfg, tie_ge)
    /\ pc' = "labeled"
    /\ UNCHANGED <<cfg, heading_candidates, raw_outline, outline, output, rows, repeated, nlp, batch_vars, doc_vars>>

NextLevels == AssignLevels \/ PromoteNonNumbered \/ BuildOutline

SpecLevels == InitLevels /\ [][NextLevels]_vars

\* the text starts with a two-segment number and a space: 'N.M '
StartsWithNM(text) ==
    LET b == SkipWS(text, 1)
        e == NumberEnd(text, b)
    IN  /\ Len(Segments(text, b, e)) = 2
        /\ e <= Len(text)
        /\ text[e] = " "

\* the positions of the numbered entries of a list
NumberedPositions(o) ==
    SelectSeq([i \in DOMAIN o |-> i], LAMBDA i : NumTuple(Strip(o[i].text)) # <<>>)

\* the list build_outline hands to the renormalization
RawOutlineOf(hs, c) ==
    IF hs = <<>> THEN <<>> ELSE RawOutline(SortHeadings(hs, Len(hs)), c)

\* an appendix marker stands before position i of the renormalized list
UnderAppendix(raw, i) == \E j \in 1..(i - 1) : APP_RE_match(Strip(raw[j].text))

TuplePrefix(p, f) == Len(p) <= Len(f) /\ SubSeq(f, 1, Len(p)) = p

\* the numbering parent of the k-th numbered entry: the nearest numbered entry
\* before it whose number is a prefix of its number and of every number in
\* between (0 when there is none)
NumberingParent(ts, k) ==
    LET cands == {j \in 1..(k - 1) : \A m \in (j + 1)..k : TuplePrefix(ts[j], ts[m])}
    IN  IF cands = {} THEN 0 ELSE CHOOSE j \in cands : \A x \in cands : x <= j

\* C5 as stated: in the outline that level assignment and build_outline
\* produce, a heading that starts with 'N.M ' and is not under an active
\* appendix is H2, whatever precedes it.
C5_TwoSegmentIsH2 ==
    pc = "outlined" =>
        LET raw == RawOutlineOf(labeled_headings, cfg)
            rp  == NumberedPositions(raw)
            op  == NumberedPositions(outline)
        IN  \A k \in DOMAIN op :
                (StartsWithNM(outline[op[k]].text) /\ ~UnderAppendix(raw, rp[k]))
                    => outline[op[k]].level = "H2"

\* C5 amended: the threshold strategy labels a heading that starts with 'N.M '
\* H2 whatever its font ratio and the thresholds, and promotion leaves it H2;
\* in the outline, not under an active appendix, it is H1 when it has no
\* numbering parent, H2 when its numbering parent is H1, and H3 otherwise.
C5_TwoSegmentByParent ==
    /\ pc \in {"assigned", "labeled"} =>
           \A i \in DOMAIN labeled_headings :
               StartsWithNM(labeled_headings[i].text) => labeled_headings[i].level = "H2"
    /\ pc = "outlined" =>
           LET raw == RawOutlineOf(labeled_headings, cfg)
               rp  == NumberedPositions(raw)
               op  == NumberedPositions(outline)
               ts  == [k \in DOMAIN op |-> NumTuple(outline[op[k]].text)]
           IN  /\ Len(rp) = Len(op)
               /\ \A k \in DOMAIN op :
                      (StartsWithNM(outline[op[k]].text) /\ ~UnderAppendix(raw, rp[k]))
                          => LET parent == NumberingParent(ts, k)
                             IN  outline[op[k]].level =
                                     IF parent = 0 THEN "H1"
                                     ELSE IF outline[op[parent]].level = "H1" THEN "H2"
                                     ELSE "H3"

\* an outline without an appendix marker in which 'N.M ' headings come out at
\* two levels, one of them H2 under an H1 parent
C5_Witness ==
    /\ pc = "outlined"
    /\ \A i \in DOMAIN outline : ~APP_RE_match(outline[i].text)
    /\ \E i, j \in DOMAIN outline :
           /\ i < j
           /\ outline[i].text = T_Scope
           /\ outline[i].level = "H1"
           /\ StartsWithNM(outline[j].text)
           /\ outline[j].level = "H2"
    /\ \E j \in DOMAIN outline : StartsWithNM(outline[j].text) /\ outline[j].level # "H2"

-----------------------------------------------------------------------------
(* detect_headings on the rows of a document of at most two pages *)

MaxDetRows == 2

T_Annual == <<"A","n","n","u","a","l"," ","R","e","p","o","r","t"," ","2","0","2","4">>

T_Ingredients == <<"I","n","g","r","e","d","i","e","n","t","s",":">>

T_Pancakes == <<"P","a","n","c","a","k","e","s">>

T_bullet_flour == <<"-"," ","f","l","o","u","r">>

T_the_end == <<"t","h","e"," ","e","n","d",".">>

DetectTexts == {T_2_1, T_Ingredients, T_Pancakes, T_bullet_flour, T_the_end}

DetectFeatures == [t \in DetectTexts |-> text_features(t)]

\* a large bold centred line, a body line, a small line set apart from its
\* neighbours
DetectLayouts ==
    {[font_size_ratio |-> 160, is_bold_majority |-> TRUE, gap_above_z |-> 0,
      gap_below_z |-> 0, gap |-> 4, center_deviation |-> 0],
     [font_size_ratio |-> 100, is_bold_majority |-> FALSE, gap_above_z |-> 0,
      gap_below_z |-> 0, gap |-> 4, center_deviation |-> 50],
     [font_size_ratio |-> 90, is_bold_majority |-> FALSE, gap_above_z |-> 130,
      gap_below_z |-> 130, gap |-> 30, center_deviation |-> 50]}

\* the default configuration and one with a heavier small-font penalty
DetectCfgs == {DefaultCfg, [DefaultCfg EXCEPT !.rel_font_below_body_penalty = -8]}

\* y0 of the k-th line of a page: 2%, 27%, 52% ... of the page height
LineTop(k) == 16 + 200 * (k - 1)

\* the rows of a document whose first k lines are on page 0 and the others on
\* page 1; the first line of a page has its distance from the page top as gap
\* above, the only line of a page has z-scores 0 (a standard deviation of 0)
RowsOfWith(features, body, k) ==
    [i \in DOMAIN body |->
        LET n == Len(body)
            onp == IF i <= k THEN i ELSE i - k
            alone == IF i <= k THEN k = 1 ELSE n - k = 1
            lay == IF alone
                   THEN [body[i].lay EXCEPT !.gap_above_z = 0, !.gap_below_z = 0]
                   ELSE body[i].lay
        IN  FeatureRowOf(features[body[i].text], IF i <= k THEN 0 ELSE 1, LineTop(onp),
                         IF onp = 1 THEN LineTop(onp) ELSE lay.gap, lay)]

RowsOf(body, k) == RowsOfWith(DetectFeatures, body, k)

InitDetect ==
    /\ pc = "features"
    /\ NoBatch
    /\ cfg \in DetectCfgs
    /\ \E n \in 0..MaxDetRows :
         \E k \in 0..n :
           \E body \in [1..n -> [text : DetectTexts, lay : DetectLayouts]] :
             rows = RowsOf(body, k)
    /\ repeated = {}
    /\ heading_candidates = <<>>
    /\ labeled_headings = <<>>
    /\ raw_outline = <<>>
    /\ outline = <<>>
    /\ output = <<>>

\* heading_candidates = detect_headings(feature_rows, cfg, repeated_titles)
DetectHeadings ==
    /\ pc = "repetition_done"
    /\ heading_candidates' = detect_headings(rows, cfg, repeated)
    /\ pc' = "detected"
    /\ UNCHANGED <<cfg, labeled_headings, raw_outline, outline, output, rows, repeated, nlp, batch_vars, doc_vars>>

NextDetect == FindRepeatedHeadings \/ DetectHeadings

SpecDetect == InitDetect /\ [][NextDetect]_vars

\* digits, one or more ".digits" groups
IsDottedNumber(t) ==
    /\ t # <<>>
    /\ \A i \in DOMAIN t : IsDigit(t[i]) \/ t[i] = "."
    /\ IsDigit(t[1]) /\ IsDigit(t[Len(t)])
    /\ \E i \in DOMAIN t : t[i] = "."
    /\ \A i \in 1..(Len(t) - 1) : ~(t[i] = "." /\ t[i + 1] = ".")

\* the text starts, after blanks, with a dotted number followed by a blank
StrictNumericPrefix(text) ==
    \E b \in DOMAIN text : \E e \in b..Len(text) :
        /\ \A i \in 1..(b - 1) : IsSpace(text[i])
        /\ IsDottedNumber(SubSeq(text, b, e - 1))
        /\ IsSpace(text[e])

\* the rows of the document in page order, each with its final score
ScoredRows ==
    LET rs == SortHeadings(rows, Len(rows))
        recipe_forced == recipe_forced_indices(rs, cfg)
        context_bonus == context_bonus_indices(rs, cfg)
    IN  [i \in DOMAIN rs |->
            [row |-> rs[i],
             res |-> ScoreRow(rs, i, cfg, repeated, recipe_forced, context_bonus)]]

\* the rows the acceptance test of the claim lets through
AcceptedRows(scored) ==
    {i \in DOMAIN scored :
        LET r == scored[i].res
        IN  \/ r.score >= cfg.heading_score_threshold
            \/ r.rules_fired >= cfg.min_rules_fired /\ r.score >= cfg.heading_score_threshold - 1
            \/ StrictNumericPrefix(scored[i].row.text)
            \/ r.forced}

\* C15: the heading candidates are, in page order, exactly the rows whose final
\* score reaches the threshold, or that fired min_rules_fired rules with a
\* score of threshold - 1, or whose text has the strict multi-level numeric
\* prefix, or that the recipe back-link forced; each carries its final score.
C15_AcceptanceTest ==
    pc = "detected" =>
        LET scored == ScoredRows
            acc == AcceptedRows(scored)
        IN  /\ Len(heading_candidates) = Cardinality(acc)
            /\ \A i \in acc :
                  LET hc == heading_candidates[Cardinality({j \in acc : j <= i})]
                  IN  /\ hc.text = scored[i].row.text
                      /\ hc.page_index0 = scored[i].row.page_index0
                      /\ hc.y_position = scored[i].row.y_position
                      /\ hc.score = scored[i].res.score

\* a row with a multi-level numeric prefix and a negative score is emitted, a
\* row that passes none of the four tests is not
C15_Witness ==
    /\ pc = "detected"
    /\ Len(rows) = 2
    /\ Len(heading_candidates) = 1
    /\ heading_candidates[1].text = T_2_1
    /\ heading_candidates[1].score < 0
    /\ LET scored == ScoredRows
       IN  \E i \in DOMAIN scored :
               i \notin AcceptedRows(scored) /\ scored[i].res.score >= 0

-----------------------------------------------------------------------------
(* filter_candidates on the candidates of a page *)

MaxFilterCands == 3

T_2024_marks == <<"2","0","2","4"," ","!","!","!">>

T_RFP == <<"R","F","P">>

FilterTexts == {T_2_1, T_2024_marks, T_hashes, T_RFP, T_of, T_Summary}

FilterFeatures == [t \in FilterTexts |-> text_features(t)]

\* the texts a tagger may or may not find a content word in
TaggerTexts == {T_of, T_Summary, T_Annual}

FilterCfgs ==
    {DefaultCfg,
     [DefaultCfg EXCEPT !.sf_enable = FALSE],
     [DefaultCfg EXCEPT !.sf_use_spacy = FALSE],
     [DefaultCfg EXCEPT !.sf_require_content_pos = FALSE],
     [DefaultCfg EXCEPT !.sf_max_chars = 5]}

\* what _get_nlp_by_model can return: None when spacy.load raises
TaggerModels == {NoModel} \cup {[loaded |-> TRUE, content |-> ok] : ok \in SUBSET TaggerTexts}

BodyLayout == CHOOSE l \in DetectLayouts : l.font_size_ratio = 100

InitFilter ==
    /\ pc = "detected"
    /\ NoBatch
    /\ cfg \in FilterCfgs
    /\ \E texts \in SeqsUpTo(FilterTexts, MaxFilterCands) :
         heading_candidates =
             [i \in DOMAIN texts |->
                 HeadingCandidateOf(
                     FeatureRowOf(FilterFeatures[texts[i]], 0, LineTop(i),
                                  IF i = 1 THEN LineTop(i) ELSE BodyLayout.gap, BodyLayout),
                     6)]
    /\ rows = <<>>
    /\ repeated = {}
    /\ labeled_headings = <<>>
    /\ raw_outline = <<>>
    /\ outline = <<>>
    /\ output = <<>>

\* heading_candidates = filter_candidates(heading_candidates, cfg); the model
\* is loaded in the call, when the filter and use_spacy are on
FilterCandidates ==
    /\ pc = "detected"
    /\ nlp' \in (IF cfg.sf_enable /\ cfg.sf_use_spacy THEN TaggerModels ELSE {nlp})
    /\ heading_candidates' = filter_candidates(heading_candidates, cfg, nlp')
    /\ pc' = "candidates"
    /\ UNCHANGED <<cfg, labeled_headings, raw_outline, outline, output, rows, repeated, batch_vars, doc_vars>>

NextFilter == FilterCandidates

SpecFilter == InitFilter /\ [][NextFilter]_vars

\* xs is ys with some elements left out
RECURSIVE IsSubsequence(_, _)
IsSubsequence(xs, ys) ==
    IF xs = <<>> THEN TRUE
    ELSE IF ys = <<>> THEN FALSE
    ELSE IF xs[1] = ys[1] THEN IsSubsequence(Tail(xs), Tail(ys))
    ELSE IsSubsequence(xs, Tail(ys))

StartsWithDigit(text) == text # <<>> /\ IsDigit(text[1])

\* C18: the output of filter_candidates is a subsequence of its input and holds
\* every candidate whose stripped text starts with a number, as often as the
\* input does.
C18_FilterOnlyFilters ==
    [][FilterCandidates =>
          /\ IsSubsequence(heading_candidates', heading_candidates)
          /\ SelectSeq(heading_candidates', LAMBDA hc : StartsWithDigit(Strip(hc.text)))
                 = SelectSeq(heading_candidates, LAMBDA hc : StartsWithDigit(Strip(hc.text)))]_vars

\* a numbered candidate with a low alphabetic ratio is kept between two
\* candidates that are dropped, one by the ratio and one by the tagger
C18_Witness ==
    /\ pc = "candidates"
    /\ nlp.loaded
    /\ T_Summary \notin nlp.content
    /\ Len(heading_candidates) = 1
    /\ heading_candidates[1].text = T_2024_marks
    /\ heading_candidates[1].y_position = LineTop(2)

\* C14: with the filter enabled and no tagging model loaded, the output of
\* filter_candidates equals its input.
C14_AcceptAll ==
    [][(FilterCandidates /\ cfg.sf_enable /\ cfg.sf_use_spacy /\ ~nlp'.loaded)
          => heading_candidates' = heading_candidates]_vars

\* C14 (amended): with the filter enabled and no tagging model loaded, the
\* output is the input without the candidates that are not numbered and fail
\* the alphabetic ratio; every other candidate is kept, in order.
C14_AcceptAllButLowAlpha ==
    [][(FilterCandidates /\ cfg.sf_enable /\ cfg.sf_use_spacy /\ ~nlp'.loaded)
          => heading_candidates' =
                 SelectSeq(heading_candidates,
                           LAMBDA hc : \/ StartsWithDigit(Strip(hc.text))
                                       \/ _passes_alpha_ratio(Strip(hc.text),
                                                              cfg.sf_min_alpha_ratio))]_vars

\* no model was loaded; a candidate the tagger could reject is kept and one
\* with a low alphabetic ratio is gone
C14_Witness ==
    /\ pc = "candidates"
    /\ cfg.sf_enable /\ cfg.sf_use_spacy
    /\ nlp = NoModel
    /\ Len(heading_candidates) = 2
    /\ heading_candidates[1].text = T_of
    /\ heading_candidates[2].text = T_2024_marks
    /\ heading_candidates[2].y_position = LineTop(3)

-----------------------------------------------------------------------------
(* assign_levels on the candidates of a page *)

MaxAssign == 3

T_2dot_Scope == <<"2","."," ","S","c","o","p","e">>

AssignTexts == {T_Scope, T_2_1, T_Deep, T_2dot_Scope, T_Summary}

AssignFeatures == [t \in AssignTexts |-> text_features(t)]

AssignLayouts ==
    {[font_size_ratio |-> 100, is_bold_majority |-> FALSE, gap_above_z |-> 0,
      gap_below_z |-> 0, gap |-> 4, center_deviation |-> 50],
     [font_size_ratio |-> 110, is_bold_majority |-> TRUE, gap_above_z |-> 0,
      gap_below_z |-> 0, gap |-> 4, center_deviation |-> 50],
     [font_size_ratio |-> 130, is_bold_majority |-> TRUE, gap_above_z |-> 0,
      gap_below_z |-> 0, gap |-> 20, center_deviation |-> 0]}

AssignLayout(ratio) == CHOOSE l \in AssignLayouts : l.font_size_ratio = ratio

\* the lines of the page: numbered and plain texts at several font ratios
AssignLines ==
    {[text |-> T_Scope, lay |-> AssignLayout(100)], [text |-> T_Scope, lay |-> AssignLayout(130)],
     [text |-> T_2_1, lay |-> AssignLayout(110)], [text |-> T_2_1, lay |-> AssignLayout(130)],
     [text |-> T_Deep, lay |-> AssignLayout(100)],
     [text |-> T_2dot_Scope, lay |-> AssignLayout(100)],
     [text |-> T_2dot_Scope, lay |-> AssignLayout(130)],
     [text |-> T_Summary, lay |-> AssignLayout(100)],
     [text |-> T_Summary, lay |-> AssignLayout(110)],
     [text |-> T_Summary, lay |-> AssignLayout(130)]}

\* the default levels and salience settings, a smaller epsilon, other level
\* thresholds, and those with the salience strategy disabled
AssignCfgs ==
    {DefaultCfg,
     [DefaultCfg EXCEPT !.sal_font_ratio_std_epsilon = 10],
     [DefaultCfg EXCEPT !.h1_rel_font_min = 125, !.h1_page_top_pct_max = 1,
                        !.h2_rel_font_min = 105, !.h2_page_top_pct_max = 30],
     [DefaultCfg EXCEPT !.h1_rel_font_min = 125, !.h1_page_top_pct_max = 1,
                        !.h2_rel_font_min = 105, !.h2_page_top_pct_max = 30,
                        !.sal_enable = FALSE]}

InitAssign ==
    /\ pc = "candidates"
    /\ NoBatch
    /\ cfg \in AssignCfgs
    /\ \E n \in 0..MaxAssign :
         \E body \in [1..n -> AssignLines] :
             heading_candidates =
                 [i \in 1..n |->
                     HeadingCandidateOf(
                         FeatureRowOf(AssignFeatures[body[i].text], 0, LineTop(i),
                                      IF i = 1 THEN LineTop(i) ELSE body[i].lay.gap,
                                      body[i].lay),
                         6)]
    /\ rows = <<>>
    /\ repeated = {}
    /\ labeled_headings = <<>>
    /\ raw_outline = <<>>
    /\ outline = <<>>
    /\ output = <<>>

\* labeled_headings = assign_levels(heading_candidates, cfg), salience strategy
AssignLevelsSalience ==
    /\ pc = "candidates"
    /\ use_salience(heading_candidates, cfg)
    /\ labeled_headings' \in _assign_levels_salience(heading_candidates, cfg)
    /\ pc' = "assigned"
    /\ UNCHANGED <<cfg, heading_candidates, raw_outline, outline, output, rows, repeated, nlp, batch_vars, doc_vars>>

NextAssign == AssignLevels \/ AssignLevelsSalience

SpecAssign == InitAssign /\ [][NextAssign]_vars

\* the level the font ratio and the page-top distance give
LevelByFontAndTop(hc, c) ==
    IF hc.font_size_ratio >= c.h1_rel_font_min \/ hc.page_top_distance <= c.h1_page_top_pct_max
    THEN "H1"
    ELSE IF hc.font_size_ratio >= c.h2_rel_font_min
              \/ hc.page_top_distance <= c.h2_page_top_pct_max
    THEN "H2"
    ELSE "H3"

\* the level of a number with the given count of dots
LevelByDots(dots) == IF dots = 0 THEN "H1" ELSE IF dots = 1 THEN "H2" ELSE "H3"

\* digits with ".digits" groups, none or more
IsNumericSequence(t) ==
    /\ t # <<>>
    /\ \A i \in DOMAIN t : IsDigit(t[i]) \/ t[i] = "."
    /\ IsDigit(t[1]) /\ IsDigit(t[Len(t)])
    /\ \A i \in 1..(Len(t) - 1) : ~(t[i] = "." /\ t[i + 1] = ".")

Dots(t) == Len(SelectSeq(t, LAMBDA ch : ch = "."))

\* the pairs <<b, e>> such that text[b..e-1] is a numeric sequence after leading
\* blanks that a blank or the end of the text follows
DelimitedNumbers(text) ==
    {be \in (1..Len(text)) \X (1..(Len(text) + 1)) :
        /\ be[1] < be[2]
        /\ \A i \in 1..(be[1] - 1) : IsSpace(text[i])
        /\ IsNumericSequence(SubSeq(text, be[1], be[2] - 1))
        /\ (be[2] = Len(text) + 1 \/ IsSpace(text[be[2]]))}

\* C16 as stated: the threshold strategy gives a candidate whose text starts
\* with a numeric sequence the level of its dot count + 1 (at most H3), and any
\* other candidate H1, H2 or H3 by font ratio and page-top distance.
C16_ThresholdLevels ==
    [][AssignLevels =>
          \A i \in DOMAIN heading_candidates :
              labeled_headings'[i].level =
                  IF NumTuple(heading_candidates[i].text) # <<>>
                  THEN LevelByDots(Len(NumTuple(heading_candidates[i].text)) - 1)
                  ELSE LevelByFontAndTop(heading_candidates[i], cfg)]_vars

\* C16 amended: the numbering decides when the numeric sequence is followed by
\* a blank or ends the text; every other candidate, one whose number is
\* followed by another character included, is levelled by font ratio and
\* page-top distance.
C16_ThresholdLevelsDelimited ==
    [][AssignLevels =>
          /\ Len(labeled_headings') = Len(heading_candidates)
          /\ \A i \in DOMAIN heading_candidates :
                LET nums == DelimitedNumbers(heading_candidates[i].text)
                IN  labeled_headings'[i].level =
                        IF nums # {}
                        THEN LevelByDots(Dots(SubSeq(heading_candidates[i].text,
                                                     (CHOOSE be \in nums : TRUE)[1],
                                                     (CHOOSE be \in nums : TRUE)[2] - 1)))
                        ELSE LevelByFontAndTop(heading_candidates[i], cfg)]_vars

\* the threshold strategy has levelled '2.1.1 Deep' at the top of the page H3,
\* '2. Scope' at font ratio 1.3 H1 by its font, and 'Summary' H3
C16_Witness ==
    /\ pc = "assigned"
    /\ ~cfg.sal_enable
    /\ Len(labeled_headings) = 3
    /\ labeled_headings[1].text = T_Deep /\ labeled_headings[1].level = "H3"
    /\ labeled_headings[1].page_top_distance <= cfg.h1_page_top_pct_max + 1
    /\ labeled_headings[2].text = T_2dot_Scope /\ labeled_headings[2].level = "H1"
    /\ labeled_headings[3].text = T_Summary /\ labeled_headings[3].level = "H3"

\* the font ratios of the candidates
font_ratios_of(hcs) == [i \in DOMAIN hcs |-> hcs[i].font_size_ratio]

\* the population standard deviation of the ratios is below epsilon: the sum of
\* the squared deviations from the mean, times n * n, against epsilon^2 * n^3
PStdevBelow(ratios, epsilon) ==
    LET n == Len(ratios)
        S == SumSeq(ratios)
    IN  SumSeq([i \in DOMAIN ratios |-> (n * ratios[i] - S) * (n * ratios[i] - S)])
            < epsilon * epsilon * n * n * n

DistinctRatios(ratios) == Cardinality({ratios[i] : i \in DOMAIN ratios})

\* the labels carry the levels of one strategy for all candidates
LevelledBySalience(hcs, labels, c) ==
    IF hcs = <<>> THEN labels = <<>> ELSE labels \in _assign_levels_salience(hcs, c)

LevelledByThreshold(hcs, labels, c) == labels = assign_levels_threshold(hcs, c)

\* C17 as stated: assign_levels uses the salience strategy exactly when there
\* are at least 2 candidates whose font ratios have a population standard
\* deviation below the epsilon, or when there are at most 2 distinct font
\* ratios; otherwise the threshold strategy; one strategy for all candidates.
C17_StrategySelection ==
    [][(AssignLevels \/ AssignLevelsSalience) =>
          LET ratios == font_ratios_of(heading_candidates)
          IN  IF \/ Len(ratios) >= 2 /\ PStdevBelow(ratios, cfg.sal_font_ratio_std_epsilon)
                 \/ DistinctRatios(ratios) <= 2
              THEN LevelledBySalience(heading_candidates, labeled_headings', cfg)
              ELSE LevelledByThreshold(heading_candidates, labeled_headings', cfg)]_vars

\* C17 amended: the salience strategy is used exactly when it is enabled, there
\* are at least 2 candidates, and their font ratios have a population standard
\* deviation below the epsilon or at most 2 distinct values; otherwise, a
\* single candidate included, the threshold strategy; one strategy for all.
C17_StrategySelectionEnabled ==
    [][(AssignLevels \/ AssignLevelsSalience) =>
          LET ratios == font_ratios_of(heading_candidates)
          IN  IF /\ cfg.sal_enable
                 /\ Len(ratios) >= 2
                 /\ \/ PStdevBelow(ratios, cfg.sal_font_ratio_std_epsilon)
                    \/ DistinctRatios(ratios) <= 2
              THEN LevelledBySalience(heading_candidates, labeled_headings', cfg)
              ELSE LevelledByThreshold(heading_candidates, labeled_headings', cfg)]_vars

\* three candidates with three distinct font ratios whose deviation is below the
\* epsilon have been levelled by salience, with levels the thresholds do not give
C17_Witness ==
    /\ pc = "assigned"
    /\ cfg.sal_enable
    /\ Len(heading_candidates) = 3
    /\ DistinctRatios(font_ratios_of(heading_candidates)) = 3
    /\ PStdevBelow(font_ratios_of(heading_candidates), cfg.sal_font_ratio_std_epsilon)
    /\ LevelledBySalience(heading_candidates, labeled_headings, cfg)
    /\ ~LevelledByThreshold(heading_candidates, labeled_headings, cfg)

-----------------------------------------------------------------------------
(* Promotion of non-numbered headings: promote_non_numbered on the labelled *)
(* headings of a document                                                   *)

MaxPromote == 3

PromoteTexts == {T_2_1, T_2dot_Scope, T_Summary, T_Of}

PromoteFeatures == [t \in PromoteTexts |-> text_features(t)]

\* the labelled headings of the document: numbered and plain texts, at font
\* ratios below, at and above the body font, with the levels they came with
PromoteLines ==
    {[text |-> T_2_1, font_size_ratio |-> 130, level |-> "H3"],
     [text |-> T_2dot_Scope, font_size_ratio |-> 130, level |-> "H3"],
     [text |-> T_Summary, font_size_ratio |-> 90, level |-> "H3"],
     [text |-> T_Summary, font_size_ratio |-> 100, level |-> "H3"],
     [text |-> T_Summary, font_size_ratio |-> 130, level |-> "H3"],
     [text |-> T_Summary, font_size_ratio |-> 130, level |-> "H1"],
     [text |-> T_Of, font_size_ratio |-> 90, level |-> "H3"],
     [text |-> T_Of, font_size_ratio |-> 100, level |-> "H2"]}

\* the default promotion settings, the median as quantile, and promotion off
PromoteCfgs ==
    {DefaultCfg,
     [DefaultCfg EXCEPT !.promotion_h2_q = 50],
     [DefaultCfg EXCEPT !.promotion_enable = FALSE]}

InitPromote ==
    /\ pc = "assigned"
    /\ NoBatch
    /\ cfg \in PromoteCfgs
    /\ \E n \in 0..MaxPromote :
         \E body \in [1..n -> PromoteLines] :
           /\ heading_candidates =
                  [i \in 1..n |->
                      HeadingCandidateOf(
                          FeatureRowOf(PromoteFeatures[body[i].text], 0, LineTop(i),
                                       IF i = 1 THEN LineTop(1) ELSE BodyLayout.gap,
                                       [BodyLayout EXCEPT
                                           !.font_size_ratio = body[i].font_size_ratio]),
                          6)]
           /\ labeled_headings =
                  [i \in 1..n |-> _mk_label(heading_candidates[i], body[i].level)]
    /\ raw_outline = <<>>
    /\ outline = <<>>
    /\ output = <<>>
    /\ rows = <<>>
    /\ repeated = {}

NextPromote == PromoteNonNumbered

SpecPromote == InitPromote /\ [][NextPromote]_vars

\* the first character of the text that is not a blank is a digit
NumericPrefixed(text) == SkipWS(text, 1) <= Len(text) /\ IsDigit(text[SkipWS(text, 1)])

\* the ratios of the headings that are not numeric-prefixed, ascending
PlainRatiosSorted(headings) ==
    SortInts(font_ratios_of(SelectSeq(headings, LAMBDA h : ~NumericPrefixed(h.text))))

\* ratio >= the q-quantile (q in hundredths) of the ascending list xs, linearly
\* interpolated between the ranks around q * (n - 1); 0 for an empty list
MeetsQuantile(ratio, xs, q) ==
    LET n  == Len(xs)
        lo == (q * (n - 1)) \div 100
        f  == (q * (n - 1)) % 100
    IN  IF n = 0 THEN ratio >= 0
        ELSE IF lo + 1 >= n THEN ratio >= xs[n]
        ELSE 100 * ratio >= (100 - f) * xs[lo + 1] + f * xs[lo + 2]

\* C19, for enabled promotion: promote_non_numbered changes nothing but the
\* level of the headings that are not numeric-prefixed, are H3 and have a font
\* ratio at or above the h2_q quantile of the font ratios of the non-numbered
\* headings; each of those becomes H2, and every other heading keeps its level.
C19_PromotionFrame ==
    [][(PromoteNonNumbered /\ cfg.promotion_enable) =>
          /\ Len(labeled_headings') = Len(labeled_headings)
          /\ \A i \in DOMAIN labeled_headings :
                LET h == labeled_headings[i]
                IN  labeled_headings'[i] =
                        IF /\ ~NumericPrefixed(h.text)
                           /\ h.level = "H3"
                           /\ MeetsQuantile(h.font_size_ratio,
                                            PlainRatiosSorted(labeled_headings),
                                            cfg.promotion_h2_q)
                        THEN [h EXCEPT !.level = "H2"]
                        ELSE h]_vars

-----------------------------------------------------------------------------
(* run_pipeline: the stages from the feature rows to the output             *)

MaxPipeRows == 2

PipeTexts == {T_Annual, T_2_1, T_Summary}

PipeFeatures == [t \in PipeTexts |-> text_features(t)]

\* the large bold layout, centred or not; a body line; a larger bold line
PipeLayouts ==
    {[font_size_ratio |-> 160, is_bold_majority |-> TRUE, gap_above_z |-> 0,
      gap_below_z |-> 0, gap |-> 4, center_deviation |-> 0],
     [font_size_ratio |-> 160, is_bold_majority |-> TRUE, gap_above_z |-> 0,
      gap_below_z |-> 0, gap |-> 4, center_deviation |-> 50],
     [font_size_ratio |-> 100, is_bold_majority |-> FALSE, gap_above_z |-> 0,
      gap_below_z |-> 0, gap |-> 4, center_deviation |-> 50],
     [font_size_ratio |-> 130, is_bold_majority |-> TRUE, gap_above_z |-> 130,
      gap_below_z |-> 130, gap |-> 30, center_deviation |-> 0]}

\* the lines of the documents
PipeLines ==
    {[text |-> T_Annual, lay |-> l] : l \in {m \in PipeLayouts : m.font_size_ratio = 160}}
    \cup {[text |-> T_Annual, lay |-> l] : l \in {m \in PipeLayouts : m.font_size_ratio = 100}}
    \cup {[text |-> T_2_1, lay |-> l] : l \in {m \in PipeLayouts : m.font_size_ratio = 130}}
    \cup {[text |-> T_Summary, lay |-> l] : l \in {m \in PipeLayouts : m.font_size_ratio # 160}}

\* the default configuration, and the semantic filter switched off
PipeCfgs == {DefaultCfg, [DefaultCfg EXCEPT !.sf_enable = FALSE]}

InitPipeline ==
    /\ pc = "features"
    /\ NoBatch
    /\ cfg \in PipeCfgs
    /\ \E n \in 0..MaxPipeRows :
         \E k \in 0..n :
           \E body \in [1..n -> PipeLines] :
             rows = RowsOfWith(PipeFeatures, body, k)
    /\ repeated = {}
    /\ heading_candidates = <<>>
    /\ labeled_headings = <<>>
    /\ raw_outline = <<>>
    /\ outline = <<>>
    /\ output = <<>>

NextPipeline ==
    \/ FindRepeatedHeadings
    \/ DetectHeadings
    \/ FilterCandidates
    \/ AssignLevels
    \/ AssignLevelsSalience
    \/ PromoteNonNumbered
    \/ BuildOutline
    \/ MakeOutputFromOutline

SpecPipeline == InitPipeline /\ [][NextPipeline]_vars

\* the document of the scenario: one page whose only line is 'Annual Report
\* 2024' at font ratio 1.6, bold, 2% of the page height from the top, under the
\* default configuration
AnnualReportDocument ==
    /\ cfg = DefaultCfg
    /\ Len(rows) = 1
    /\ rows[1].text = T_Annual
    /\ rows[1].page_index0 = 0
    /\ rows[1].font_size_ratio = 160
    /\ rows[1].is_bold_majority
    /\ rows[1].page_top_distance = 2

\* the tagging model is missing, or it finds a content word in the line
TaggerKeepsAnnualReport == ~nlp.loaded \/ T_Annual \in nlp.content

\* C12: for the document of the scenario the scorer accepts the line with a
\* score at or above the heading threshold; the line, when the tagger finds a
\* content word in it or is missing, is levelled by the threshold strategy, is
\* H1, and the title of the output is exactly 'Annual Report 2024'.
C12_AnnualReportScenario ==
    AnnualReportDocument =>
        /\ pc = "detected" =>
              /\ Len(heading_candidates) = 1
              /\ heading_candidates[1].text = T_Annual
              /\ heading_candidates[1].score >= cfg.heading_score_threshold
        /\ (pc = "candidates" /\ TaggerKeepsAnnualReport) =>
              /\ Len(heading_candidates) = 1
              /\ ~ENABLED AssignLevelsSalience
              /\ ENABLED AssignLevels
        /\ (pc \in {"assigned", "labeled", "outlined"} /\ TaggerKeepsAnnualReport) =>
              /\ Len(labeled_headings) = 1
              /\ labeled_headings[1].text = T_Annual
              /\ labeled_headings[1].level = "H1"
              /\ pc = "assigned" =>
                    labeled_headings = assign_levels_threshold(heading_candidates, cfg)
        /\ (pc = "written" /\ TaggerKeepsAnnualReport) =>
              /\ output.title = T_Annual
              /\ Len(output.outline) = 1
              /\ output.outline[1].level = "H1"

\* the output of the scenario has been written with a loaded tagging model
C12_Witness ==
    /\ AnnualReportDocument
    /\ pc = "written"
    /\ nlp.loaded
    /\ T_Annual \in nlp.content
    /\ output.title = T_Annual

-----------------------------------------------------------------------------
(* run.py: the loop of main over the PDFs of the input directory, and the   *)
(* output names of common/io.py                                             *)

MaxPdfs == 3

\* a character _SANITIZE_RE leaves alone: [A-Za-z0-9._-]
IsSafeChar(ch) == IsAlpha(ch) \/ IsDigit(ch) \/ ch \in {".", "_", "-"}

\* _SANITIZE_RE.sub("_", stem): each run of other characters becomes one "_"
RECURSIVE SanitizeRuns(_)
SanitizeRuns(stem) ==
    IF stem = <<>> THEN <<>>
    ELSE IF IsSafeChar(stem[1]) THEN <<stem[1]>> \o SanitizeRuns(Tail(stem))
    ELSE IF Len(stem) > 1 /\ ~IsSafeChar(stem[2]) THEN SanitizeRuns(Tail(stem))
    ELSE <<"_">> \o SanitizeRuns(Tail(stem))

\* str.strip("._-")
RECURSIVE StripEdgeChars(_)
StripEdgeChars(t) ==
    IF t = <<>> THEN <<>>
    ELSE IF t[1] \in {".", "_", "-"} THEN StripEdgeChars(Tail(t))
    ELSE IF t[Len(t)] \in {".", "_", "-"} THEN StripEdgeChars(SubSeq(t, 1, Len(t) - 1))
    ELSE t

T_output == <<"o","u","t","p","u","t">>

safe_stem(stem) ==
    LET t == StripEdgeChars(SanitizeRuns(stem))
    IN  IF t = <<>> THEN T_output ELSE t

\* out_name = f"{safe_stem(pdf_path)}.json"
out_name(stem) == safe_stem(stem) \o <<".","j","s","o","n">>

\* the stems of the PDFs of the input directory, in the order of
\* list_input_pdfs (sorted by lower-cased name): '#', 'a b', 'a_b', 'report'
PdfStems == <<<<"#">>, <<"a"," ","b">>, <<"a","_","b">>, <<"r","e","p","o","r","t">>>>

\* what run_pipeline does for a document: it raises, or it returns a result
NoResult == [title |-> <<>>, outline |-> <<>>]

PipelineResults ==
    {make_output_from_outline(<<>>),
     make_output_from_outline(<<[level |-> "H1", text |-> T_Summary, page |-> 1, score |-> 6]>>)}

PipelineOutcomes ==
    {[raises |-> TRUE, result |-> NoResult]}
    \cup {[raises |-> FALSE, result |-> r] : r \in PipelineResults}

\* elapsed > cfg.timing.hard_timeout_seconds: measured for a document whose
\* result was written, so a raising document has no such measurement
SlowOutcomes(raises) == IF raises THEN {FALSE} ELSE BOOLEAN

\* write_json(result, out_path): the file of that name holds the result
write_json(files, name, pdf, result) ==
    {f \in files : f.name # name} \cup {[name |-> name, pdf |-> pdf, result |-> result]}

\* one turn of the loop with a write before the pipeline has returned
process_pdf_writes_partial(p, st) ==
    IF p.raises
    THEN [out_files |-> write_json(st.out_files, out_name(p.stem), p.stem, p.result),
          processed |-> st.processed, failed |-> st.failed + 1]
    ELSE [out_files |-> write_json(st.out_files, out_name(p.stem), p.stem, p.result),
          processed |-> st.processed + 1, failed |-> st.failed]

\* one turn of the loop: try run_pipeline, write_json, processed += 1;
\* except Exception: failed += 1
process_pdf(p, st) ==
    IF p.raises
    THEN [out_files |-> st.out_files, processed |-> st.processed, failed |-> st.failed + 1]
    ELSE [out_files |-> write_json(st.out_files, out_name(p.stem), p.stem, p.result),
          processed |-> st.processed + 1, failed |-> st.failed]

\* if elapsed > cfg.timing.hard_timeout_seconds: log.warning(...), after
\* processed += 1 and inside the try block; the number of warnings logged
timeout_warning(p) == IF ~p.raises /\ p.slow THEN 1 ELSE 0

\* a main that gives up with exit code 0 whatever has failed
main_return_zero(n_failed) == 0

\* return 0 if failed == 0 else 2
main_return(n_failed) == IF n_failed = 0 THEN 0 ELSE 2

InitBatch ==
    /\ pc = "batch"
    /\ cfg = DefaultCfg
    /\ nlp = NoModel
    /\ \E order \in SeqsUpTo(DOMAIN PdfStems, MaxPdfs) :
         /\ \A i, j \in DOMAIN order : i < j => order[i] < order[j]
         /\ \E outcome \in [DOMAIN order -> PipelineOutcomes] :
              \E slow \in [DOMAIN order -> BOOLEAN] :
                  /\ \A i \in DOMAIN order : slow[i] \in SlowOutcomes(outcome[i].raises)
                  /\ pdf_paths = [i \in DOMAIN order |->
                                     [stem   |-> PdfStems[order[i]],
                                      raises |-> outcome[i].raises,
                                      result |-> outcome[i].result,
                                      slow   |-> slow[i]]]
    /\ next_pdf = 1
    /\ out_files = {}
    /\ processed = 0
    /\ failed = 0
    /\ attempted = <<>>
    /\ timeout_warnings = 0
    /\ exit_code = -1
    /\ doc = NoDocument
    /\ page_nums = <<>>
    /\ rows = <<>>
    /\ repeated = {}
    /\ heading_candidates = <<>>
    /\ labeled_headings = <<>>
    /\ raw_outline = <<>>
    /\ outline = <<>>
    /\ output = <<>>

\* for pdf_path in pdf_paths: one turn
ProcessPdf ==
    /\ pc = "batch"
    /\ next_pdf <= Len(pdf_paths)
    /\ LET st == process_pdf(pdf_paths[next_pdf],
                             [out_files |-> out_files, processed |-> processed,
                              failed |-> failed])
       IN  /\ out_files' = st.out_files
           /\ processed' = st.processed
           /\ failed' = st.failed
    /\ attempted' = Append(attempted, pdf_paths[next_pdf].stem)
    /\ timeout_warnings' = timeout_warnings + timeout_warning(pdf_paths[next_pdf])
    /\ next_pdf' = next_pdf + 1
    /\ UNCHANGED <<pc, cfg, heading_candidates, labeled_headings, raw_outline, outline, output,
                   rows, repeated, nlp, pdf_paths, exit_code, doc_vars>>

\* the end of main: the loop is through, the totals are logged
ReturnFromMain ==
    /\ pc = "batch"
    /\ next_pdf > Len(pdf_paths)
    /\ exit_code' = main_return(failed)
    /\ pc' = "exited"
    /\ UNCHANGED <<cfg, heading_candidates, labeled_headings, raw_outline, outline, output,
                   rows, repeated, nlp, pdf_paths, next_pdf, out_files, processed, failed,
                   attempted, timeout_warnings, doc_vars>>

NextBatch == ProcessPdf \/ ReturnFromMain

SpecBatch == InitBatch /\ [][NextBatch]_vars

\* the documents the loop has gone through, and those of them that returned
DonePdfs == SubSeq(pdf_paths, 1, next_pdf - 1)

ReturnedPdfs(ps) == SelectSeq(ps, LAMBDA p : ~p.raises)

\* the files a run over the documents ps leaves when all of them return: per
\* output name the result of the last document of that name
RECURSIVE FilesOfRun(_)
FilesOfRun(ps) ==
    IF ps = <<>> THEN {}
    ELSE LET last == ps[Len(ps)]
         IN  {f \in FilesOfRun(SubSeq(ps, 1, Len(ps) - 1)) : f.name # out_name(last.stem)}
             \cup {[name |-> out_name(last.stem), pdf |-> last.stem, result |-> last.result]}

\* C13: at every point of the batch loop the output files are those of a run
\* over the documents that returned, as if the raising documents were not in
\* the list: none of them has a file or a part of one, a failure changes no
\* other document's file, and the loop goes on to the next document; the
\* counters count the returned and the raising documents.
C13_FailureIsolation ==
    pc = "batch" =>
        /\ out_files = FilesOfRun(ReturnedPdfs(DonePdfs))
        /\ \A f \in out_files :
              \E i \in 1..(next_pdf - 1) :
                  /\ ~pdf_paths[i].raises
                  /\ pdf_paths[i].stem = f.pdf
                  /\ pdf_paths[i].result = f.result
        /\ processed = Len(ReturnedPdfs(DonePdfs))
        /\ failed = Len(DonePdfs) - Len(ReturnedPdfs(DonePdfs))
        /\ next_pdf <= Len(pdf_paths) => ENABLED ProcessPdf

\* the loop is through three documents of which the second raised: the first
\* and the third have their files
C13_Witness ==
    /\ pc = "batch"
    /\ Len(pdf_paths) = 3
    /\ next_pdf = 4
    /\ ~pdf_paths[1].raises /\ pdf_paths[2].raises /\ ~pdf_paths[3].raises
    /\ failed = 1
    /\ processed = 2
    /\ Cardinality(out_files) = 2

-----------------------------------------------------------------------------
(* Further claims about renormalization *)

\* C21: the output of renormalize_by_number_tree has the length and the order
\* of its input, every entry keeps its text, page and score, and an entry whose
\* text neither matches the appendix marker nor starts with a number keeps the
\* level it had.
C21_RenormFrame ==
    [][Renormalize =>
          /\ Len(outline') = Len(raw_outline)
          /\ \A i \in DOMAIN raw_outline :
                /\ outline'[i].text = raw_outline[i].text
                /\ outline'[i].page = raw_outline[i].page
                /\ outline'[i].score = raw_outline[i].score
                /\ (~IsAppendixEntry(raw_outline[i]) /\ ~NumericPrefixed(raw_outline[i].text))
                       => outline'[i].level = raw_outline[i].level]_vars

\* a renormalized outline of a numbered entry, 'A.1 Raw Tables' still H1 after
\* it, and 'Summary' still H2
C21_Witness ==
    /\ pc = "renormalized"
    /\ Len(outline) = 3
    /\ outline[1].text = T_2_1 /\ outline[1].level = "H1"
    /\ outline[2].text = T_A1 /\ outline[2].level = "H1"
    /\ outline[3].text = T_Summary /\ outline[3].level = "H2"

-----------------------------------------------------------------------------
(* Further claims about build_outline *)

\* C22: in the outline returned by build_outline no page carries two H1
\* entries, numbered entries and forced-H1 keywords included.
C22_OneH1PerPage ==
    pc = "outlined" =>
        \A i, j \in DOMAIN outline :
            (i < j /\ outline[i].page = outline[j].page /\ outline[i].level = "H1")
                => outline[j].level # "H1"

-----------------------------------------------------------------------------
(* Further claims about detect_headings *)

\* the stripped text starts with a dash, a bullet glyph or an asterisk and a blank
BulletPrefixed(text) ==
    LET t == Strip(text)
    IN  Len(t) >= 2 /\ t[1] \in {"-", "bullet", "*"} /\ IsSpace(t[2])

\* the text ends in a period and has no numeric prefix
TrailingPeriodLine(row) ==
    /\ Strip(row.text) # <<>>
    /\ Strip(row.text)[Len(Strip(row.text))] = "."
    /\ ~row.has_numeric_prefix

\* the score of row i after the rules and the recipe force
ScoreAfterRules(rs, i) ==
    LET base == BaseScore(rs, i, cfg, repeated, context_bonus_indices(rs, cfg))
    IN  IF i \in recipe_forced_indices(rs, cfg)
        THEN base.score + Max(0, cfg.heading_score_threshold - base.score) + 1
        ELSE base.score

\* C23: a row that is bullet-prefixed, or ends in a period without a numeric
\* prefix, and scores below heading_score_threshold + 1 after the rules has 1
\* subtracted from its score; every other row has nothing subtracted (rows
\* that match no heading keyword, so that the score stays as it then is).
C23_WeakLineDiscount ==
    pc = "detected" =>
        LET scored == ScoredRows
            rs == [i \in DOMAIN scored |-> scored[i].row]
        IN  \A i \in DOMAIN scored :
                Lower(Strip(rs[i].text)) \notin kw_set(cfg) =>
                    scored[i].res.score =
                        IF /\ BulletPrefixed(rs[i].text) \/ TrailingPeriodLine(rs[i])
                           /\ ScoreAfterRules(rs, i) < cfg.heading_score_threshold + 1
                        THEN ScoreAfterRules(rs, i) - 1
                        ELSE ScoreAfterRules(rs, i)

-----------------------------------------------------------------------------
(* The recipe back-link of detect_headings on pages of titles, labels and   *)
(* bullets                                                                  *)

MaxRecipeRows == 3

RecipeTexts == {T_Pancakes, T_Ingredients, T_bullet_flour}

RecipeLayouts == {l \in DetectLayouts : l.font_size_ratio <= 100}

\* the default recipe settings, a back-look of one row, and the back-link off
RecipeCfgs ==
    {DefaultCfg,
     [DefaultCfg EXCEPT !.rec_back_look_lines = 1],
     [DefaultCfg EXCEPT !.rec_enable = FALSE]}

InitRecipe ==
    /\ pc = "features"
    /\ NoBatch
    /\ cfg \in RecipeCfgs
    /\ \E n \in 0..MaxRecipeRows :
         \E k \in 0..n :
           \E body \in [1..n -> [text : RecipeTexts, lay : RecipeLayouts]] :
             rows = RowsOf(body, k)
    /\ repeated = {}
    /\ heading_candidates = <<>>
    /\ labeled_headings = <<>>
    /\ raw_outline = <<>>
    /\ outline = <<>>
    /\ output = <<>>

NextRecipe == FindRepeatedHeadings \/ DetectHeadings

SpecRecipe == InitRecipe /\ [][NextRecipe]_vars

\* the row's stripped, lower-cased text is one of the recipe labels
IsRecipeLabelRow(r) == Lower(Strip(r.text)) \in {Lower(l) : l \in cfg.rec_labels}

\* a row the back-link can pick: a few words, no colon at the end, no bullet
TitleLikeRow(r) ==
    /\ r.word_count >= cfg.rec_min_title_words
    /\ r.word_count <= cfg.rec_max_title_words
    /\ ~(Strip(r.text) # <<>> /\ Strip(r.text)[Len(Strip(r.text))] = ":")
    /\ ~BulletPrefixed(r.text)

\* the rows the back-link picks in the page-ordered rows rs: for each label
\* row the nearest title-like row among the back_look_lines rows before it
BackLinkedRows(rs) ==
    {j \in DOMAIN rs :
        \E i \in DOMAIN rs :
            /\ IsRecipeLabelRow(rs[i])
            /\ i - cfg.rec_back_look_lines <= j /\ j < i
            /\ TitleLikeRow(rs[j])
            /\ \A m \in (j + 1)..(i - 1) : ~TitleLikeRow(rs[m])}

\* row r is among the heading candidates with a score of at least the threshold
EmittedAboveThreshold(r) ==
    \E k \in DOMAIN heading_candidates :
        /\ heading_candidates[k].page_index0 = r.page_index0
        /\ heading_candidates[k].y_position = r.y_position
        /\ heading_candidates[k].text = r.text
        /\ heading_candidates[k].score >= cfg.heading_score_threshold

\* C24 as stated: for every row whose stripped lower-cased text is a recipe
\* label, the nearest title-like row among the back_look_lines rows before it
\* is a heading candidate with a final score of at least the threshold.
C24_RecipeBackLink ==
    pc = "detected" =>
        LET rs == SortHeadings(rows, Len(rows))
        IN  \A j \in BackLinkedRows(rs) : EmittedAboveThreshold(rs[j])

\* C24 amended: the same when the recipe back-link is enabled.
C24_RecipeBackLinkEnabled ==
    (pc = "detected" /\ cfg.rec_enable) =>
        LET rs == SortHeadings(rows, Len(rows))
        IN  \A j \in BackLinkedRows(rs) : EmittedAboveThreshold(rs[j])

\* 'Pancakes' in a small font, a bullet and the label 'Ingredients:': the
\* title is two rows back, is forced and is the candidate of the least score
C24_Witness ==
    /\ pc = "detected"
    /\ cfg = DefaultCfg
    /\ Len(rows) = 3
    /\ LET rs == SortHeadings(rows, Len(rows))
       IN  /\ rs[1].text = T_Pancakes /\ rs[1].font_size_ratio < 100
           /\ rs[2].text = T_bullet_flour
           /\ rs[3].text = T_Ingredients
           /\ BackLinkedRows(rs) = {1}
           /\ BaseScore(rs, 1, cfg, repeated, {}).score < cfg.heading_score_threshold - 1
           /\ EmittedAboveThreshold(rs[1])

-----------------------------------------------------------------------------
(* The numbering stack of renormalize_by_number_tree *)

\* entry i of items matches NUM_RE and not APP_RE
NumberedAt(items, i) ==
    ~APP_RE_match(Strip(items[i].text)) /\ NumTuple(Strip(items[i].text)) # <<>>

\* an appendix marker stands among the first n entries of items
AppendixAmong(items, n) ==
    \E m \in 1..n : APP_RE_match(Strip(items[m].text))

TupleAt(items, i) == NumTuple(Strip(items[i].text))

\* the numbered entries before i that every numbered entry after them, up to
\* i, extends: the ones the pops have left below entry i
AncestorsOf(items, i) ==
    {j \in 1..(i - 1) :
        /\ NumberedAt(items, j)
        /\ \A m \in (j + 1)..i :
              NumberedAt(items, m) => _is_prefix(TupleAt(items, j), TupleAt(items, m))}

\* the greatest element of a non-empty set of integers
Greatest(S) == CHOOSE x \in S : \A y \in S : y <= x

\* the level rule of an ordinary numbered entry, read off the result: H1
\* without an ancestor, else the parent's level plus the relative depth
FollowsStackRule(items, res, i) ==
    LET anc == AncestorsOf(items, i)
    IN  IF anc = {} THEN res[i].level = "H1"
        ELSE LET p == Greatest(anc)
             IN  res[i].level =
                     FmtLevel(clamp(LEVEL2INT(res[p].level)
                         + Max(1, Len(TupleAt(items, i)) - Len(TupleAt(items, p)))))

\* every element's tuple is a prefix of the tuple above it
PrefixChain(stack) ==
    \A k \in 1..(Len(stack) - 1) : _is_prefix(stack[k].tuple, stack[k + 1].tuple)

\* a numbered entry is on top of the stack after its step
PushedOnTop(items, n, stack) ==
    NumberedAt(items, n) =>
        (stack # <<>> /\ stack[Len(stack)].tuple = TupleAt(items, n))

\* C25 as stated: a numbered entry with no appendix marker before it gets
\* level 1 when the pops empty the stack and else the clamped parent level plus
\* max(1, difference of the tuple lengths), and is pushed; after each step of
\* the loop every stack element's tuple is a prefix of the tuple above it.
C25_NumberingStack ==
    [][Renormalize =>
        /\ \A i \in DOMAIN raw_outline :
              (NumberedAt(raw_outline, i) /\ ~AppendixAmong(raw_outline, i))
                  => FollowsStackRule(raw_outline, outline', i)
        /\ \A n \in 1..Len(raw_outline) :
              LET st == RenormLoop(raw_outline, n,
                            cfg.appendix_base_level, cfg.appendix_children_bump)
              IN  PushedOnTop(raw_outline, n, st.stack) /\ PrefixChain(st.stack)]_vars

\* C25 amended: the same, the prefix chain after each step up to the first
\* appendix marker.
C25_NumberingStackOrdinary ==
    [][Renormalize =>
        /\ \A i \in DOMAIN raw_outline :
              (NumberedAt(raw_outline, i) /\ ~AppendixAmong(raw_outline, i))
                  => FollowsStackRule(raw_outline, outline', i)
        /\ \A n \in 1..Len(raw_outline) :
              LET st == RenormLoop(raw_outline, n,
                            cfg.appendix_base_level, cfg.appendix_children_bump)
              IN  ~AppendixAmong(raw_outline, n) =>
                      (PushedOnTop(raw_outline, n, st.stack) /\ PrefixChain(st.stack))]_vars

\* '2.1 Background', '2.1.1 Deep', '2 Scope': the third entry pops both
\* earlier ones and is levelled H1 although it came in as H3
C25_Witness ==
    /\ pc = "renormalized"
    /\ Len(outline) = 3
    /\ outline[1].text = T_2_1 /\ outline[1].level = "H1"
    /\ outline[2].text = T_Deep /\ outline[2].level = "H2"
    /\ outline[3].text = T_Scope /\ outline[3].level = "H1"
    /\ AncestorsOf(outline, 3) = {}
    /\ AncestorsOf(outline, 2) = {1}

-----------------------------------------------------------------------------
(* Appendix mode of renormalize_by_number_tree *)

\* C28: every numbered entry that stands after an appendix marker gets the
\* level clamp(appendix_base_level + appendix_children_bump), whatever the
\* depth of its number and whatever stands between the marker and the entry.
C28_AppendixSticky ==
    [][Renormalize =>
        \A i \in DOMAIN raw_outline :
            (NumberedAt(raw_outline, i) /\ AppendixAmong(raw_outline, i - 1))
                => outline'[i].level =
                       FmtLevel(clamp(cfg.appendix_base_level + cfg.appendix_children_bump))]_vars

\* 'Appendix A: Data Sources', '2 Scope', '2.1.1 Deep' with base 0 and bump
\* 1: both numbered entries are H1, the deeper one is no child of the other
C28_Witness ==
    /\ pc = "renormalized"
    /\ cfg.appendix_base_level = 0 /\ cfg.appendix_children_bump = 1
    /\ Len(outline) = 3
    /\ outline[1].text = T_AppendixA
    /\ outline[2].text = T_Scope /\ outline[2].level = "H1"
    /\ outline[3].text = T_Deep /\ outline[3].level = "H1"
    /\ _is_prefix(TupleAt(outline, 2), TupleAt(outline, 3))

-----------------------------------------------------------------------------
(* The accounting of the batch driver *)

\* the loop of main and the return after it are steps of one sequential
\* program: whichever of them is enabled is eventually taken
SpecBatchFair == SpecBatch /\ WF_vars(NextBatch)

\* the names of the listed documents, in the listed order
ListedStems == [i \in DOMAIN pdf_paths |-> pdf_paths[i].stem]

\* the totals when main has returned
AccountsAtExit ==
    pc = "exited" =>
        /\ attempted = ListedStems
        /\ processed + failed = Len(pdf_paths)
        /\ (exit_code = 0 <=> failed = 0)
        /\ exit_code \in {0, 2}

\* a turn that counts a document as processed has written its JSON
CountedAfterWrite ==
    processed' # processed =>
        /\ processed' = processed + 1
        /\ \E f \in out_files' :
              /\ f.name = out_name(pdf_paths[next_pdf].stem)
              /\ f.pdf = pdf_paths[next_pdf].stem
              /\ f.result = pdf_paths[next_pdf].result

\* a turn for a document that took longer than hard_timeout_seconds counts
\* it as processed, fails nothing and goes on with the loop
TimeoutOnlyWarns ==
    (ProcessPdf /\ pdf_paths[next_pdf].slow) =>
        /\ processed' = processed + 1
        /\ failed' = failed
        /\ timeout_warnings' = timeout_warnings + 1
        /\ next_pdf' = next_pdf + 1
        /\ pc' = "batch"

\* C30: main attempts every listed document once, in the listed order, and
\* returns; when it returns processed + failed is the number of listed
\* documents and the exit code is 0 exactly when nothing failed, else 2; a
\* document is counted as processed in the turn that wrote its JSON; a document
\* over the hard timeout is processed like any other.
C30_BatchAccounting ==
    /\ []AccountsAtExit
    /\ [][CountedAfterWrite /\ TimeoutOnlyWarns]_vars
    /\ <>(pc = "exited")

\* main has returned 2 from three documents: one raised, and one of the two
\* written ones was over the hard timeout
C30_Witness ==
    /\ pc = "exited"
    /\ Len(pdf_paths) = 3
    /\ Len(attempted) = 3
    /\ processed = 2
    /\ failed = 1
    /\ timeout_warnings = 1
    /\ exit_code = 2
    /\ \E i \in DOMAIN pdf_paths : pdf_paths[i].slow

-----------------------------------------------------------------------------
(* tagged_extractor.py, pdf_reader.py and the head of run_pipeline *)

\* pr.get_toc(doc): the entries of doc.get_toc() with page - 1, not below 0
\* (the pages PyMuPDF gives are integers)
get_toc(d) ==
    [i \in DOMAIN d.toc |->
        [level |-> d.toc[i].level,
         title |-> d.toc[i].title,
         page  |-> Max(0, d.toc[i].page - 1)]]

_map_level_to_h(toc_level) ==
    IF toc_level <= 1 THEN "H1" ELSE IF toc_level = 2 THEN "H2" ELSE "H3"

\* the loop of extract over the first n entries of toc
RECURSIVE ExtractLoop(_, _, _)
ExtractLoop(toc, n, c) ==
    IF n = 0 THEN <<>>
    ELSE LET text == Strip(toc[n].title)
             rest == ExtractLoop(toc, n - 1, c)
         IN  IF _core_len(text) < c.min_core_chars THEN rest
             ELSE Append(rest, [level |-> _map_level_to_h(toc[n].level),
                                text  |-> text,
                                page  |-> Max(1, toc[n].page)])

\* tagged_extractor.extract(doc, toc, cfg); None is <<>>, the list extract
\* returns is never empty
extract(toc, c) == ExtractLoop(toc, Len(toc), c)

\* writer.make_output_from_tagged
make_output_from_tagged(tagged_headings) ==
    LET o == [i \in DOMAIN tagged_headings |->
                 [level |-> tagged_headings[i].level,
                  text  |-> tagged_headings[i].text,
                  page  |-> tagged_headings[i].page,
                  score |-> 0]]
    IN  [title   |-> _select_title_from_outline(o),
         outline |-> [i \in DOMAIN o |->
                         [level |-> o[i].level, text |-> o[i].text, page |-> o[i].page]]]

\* label.strip().isdigit()
IsNumericLabel(label) ==
    LET stripped == Strip(label)
    IN  stripped # <<>> /\ \A k \in DOMAIN stripped : IsDigit(stripped[k])

\* pr.get_page_number_map(doc): [0] for a one-page document, else per page
\* the numeric label minus 1, or the page index
get_page_number_map(d) ==
    IF Len(d.labels) = 1 THEN <<0>>
    ELSE [i \in DOMAIN d.labels |->
             IF IsNumericLabel(d.labels[i])
             THEN IntOf(Strip(d.labels[i]), 1, Len(Strip(d.labels[i]))) - 1
             ELSE i - 1]

\* the parameters of def get_page_number_map(doc)
GetPageNumberMapParams == {"doc"}

\* pipeline._make_page_numbers(doc, cfg): what it returns, or that it raises.
\* In mode 'labels' it calls pr.get_page_number_map(doc, fallback_offset=0),
\* a TypeError when the callee has no parameter of that name.
_make_page_numbers(d, c) ==
    IF c.page_mode = "labels"
    THEN IF "fallback_offset" \in GetPageNumberMapParams
         THEN [raises |-> FALSE,
               nums   |-> [i \in DOMAIN d.labels |-> get_page_number_map(d)[i] + c.page_offset]]
         ELSE [raises |-> TRUE, nums |-> <<>>]
    ELSE IF c.page_mode = "index0"
    THEN [raises |-> FALSE, nums |-> [i \in DOMAIN d.labels |-> (i - 1) + c.page_offset]]
    ELSE [raises |-> FALSE, nums |-> [i \in DOMAIN d.labels |-> (i - 1) + 1 + c.page_offset]]

-----------------------------------------------------------------------------
(* run_pipeline on an opened document, up to the page numbers *)

MaxToc == 2

MaxPages == 2

T_a_dot == <<"a", ".">>

\* TOC entries as doc.get_toc() gives them: level, title, 1-based page
TocEntries == [level : {1, 2, 4}, title : {T_Summary, T_a_dot}, page : {1, 3}]

PageLabels == {<<>>, <<"i">>, <<"3">>}

\* documents with a table of contents, whose page labels the fast path does
\* not read, and documents without one under every labelling of their pages
Documents ==
    {[toc |-> t, labels |-> <<<<"1">>, <<"2">>, <<"3">>>>] :
        t \in SeqsUpTo(TocEntries, MaxToc)}
    \cup {[toc |-> <<>>, labels |-> l] :
            l \in SeqsUpTo(PageLabels, MaxPages) \ {<<>>}}

DocumentCfgs ==
    {[DefaultCfg EXCEPT !.min_toc_entries = m, !.page_mode = pm.mode, !.page_offset = pm.offset] :
        m \in {1, 2},
        pm \in {[mode |-> "index1", offset |-> 0], [mode |-> "index0", offset |-> 2],
                [mode |-> "labels", offset |-> 0], [mode |-> "labels", offset |-> 2]}}

InitDocument ==
    /\ pc = "opened"
    /\ cfg \in DocumentCfgs
    /\ doc \in Documents
    /\ page_nums = <<>>
    /\ nlp = NoModel
    /\ pdf_paths = <<>>
    /\ next_pdf = 1
    /\ out_files = {}
    /\ processed = 0
    /\ failed = 0
    /\ attempted = <<>>
    /\ timeout_warnings = 0
    /\ exit_code = -1
    /\ labeled_headings = <<>>
    /\ raw_outline = <<>>
    /\ outline = <<>>
    /\ heading_candidates = <<>>
    /\ output = <<>>
    /\ rows = <<>>
    /\ repeated = {}

\* the fast path is taken: the TOC is long enough and extract returns a list
TaggedUsable ==
    /\ Len(get_toc(doc)) >= cfg.min_toc_entries
    /\ extract(get_toc(doc), cfg) # <<>>

\* run_pipeline returns make_output_from_tagged(tagged_result, cfg)
TaggedFastPath ==
    /\ pc = "opened"
    /\ TaggedUsable
    /\ output' = make_output_from_tagged(extract(get_toc(doc), cfg))
    /\ pc' = "written"
    /\ UNCHANGED <<cfg, heading_candidates, labeled_headings, raw_outline, outline, rows,
                   repeated, nlp, batch_vars, doc_vars>>

\* run_pipeline goes on to the heuristic path
HeuristicPath ==
    /\ pc = "opened"
    /\ ~TaggedUsable
    /\ pc' = "heuristic"
    /\ UNCHANGED <<cfg, heading_candidates, labeled_headings, raw_outline, outline, output,
                   rows, repeated, nlp, batch_vars, doc_vars>>

\* page_nums = _make_page_numbers(doc, cfg); an exception leaves run_pipeline
MakePageNumbers ==
    /\ pc = "heuristic"
    /\ LET r == _make_page_numbers(doc, cfg)
       IN  IF r.raises
           THEN pc' = "raised" /\ page_nums' = page_nums
           ELSE pc' = "page_numbers" /\ page_nums' = r.nums
    /\ UNCHANGED <<cfg, heading_candidates, labeled_headings, raw_outline, outline, output,
                   rows, repeated, nlp, batch_vars, doc>>

NextDocument == TaggedFastPath \/ HeuristicPath \/ MakePageNumbers

SpecDocument == InitDocument /\ [][NextDocument]_vars

\* the TOC triples that survive the core-length filter, as the document
\* gives them
SurvivingToc ==
    SelectSeq(doc.toc, LAMBDA e : _core_len(Strip(e.title)) >= cfg.min_core_chars)

\* C26: when the embedded table of contents has at least min_toc_entries
\* entries and one of them survives the core-length filter, the output has one
\* outline entry per surviving triple, in TOC order, with the triple's title
\* and the triple's 1-based page.
C26_TocPages ==
    (pc # "opened" /\ Len(doc.toc) >= cfg.min_toc_entries /\ SurvivingToc # <<>>) =>
        /\ pc = "written"
        /\ Len(output.outline) = Len(SurvivingToc)
        /\ \A i \in DOMAIN SurvivingToc :
              /\ output.outline[i].text = Strip(SurvivingToc[i].title)
              /\ output.outline[i].page = SurvivingToc[i].page

\* the number the page label of page i stands for, its position when the
\* label is not numeric
LabelNumber(d, i) ==
    IF IsNumericLabel(d.labels[i])
    THEN IntOf(Strip(d.labels[i]), 1, Len(Strip(d.labels[i])))
    ELSE i

\* C27: in mode 'labels' a document that goes the heuristic path gets its
\* page numbers without an error: per page the number of its numeric label,
\* or its position, plus the offset.
C27_PageLabels ==
    (cfg.page_mode = "labels" /\ pc \in {"raised", "page_numbers"}) =>
        /\ pc = "page_numbers"
        /\ Len(page_nums) = Len(doc.labels)
        /\ \A i \in DOMAIN doc.labels :
              page_nums[i] = LabelNumber(doc, i) + cfg.page_offset

-----------------------------------------------------------------------------
(* The levels of the salience strategy *)

\* the sign of the difference of the saliences of candidates i and j
CmpSalience(sal, i, j) ==
    SignRoot(sal.scores[i].a - sal.scores[j].a, sal.scores[i].b - sal.scores[j].b,
             sal.n, sal.q)

\* the sign of the difference of the salience of candidate i and the cut at
\* quantile qq, both as real numbers
CmpCut(sal, i, qq) ==
    LET cut == _pick(SortSaliences(sal.scores, sal.n, sal.q), qq)
    IN  SignRoot(20 * sal.scores[i].a - cut.a, 20 * sal.scores[i].b - cut.b, sal.n, sal.q)

\* C29: the salience strategy labels at least one candidate H1: every
\* candidate of the greatest salience is H1, an H2 candidate is below the q_h1
\* cut and not below the q_h2 cut, and candidates of one salience are all H1.
C29_SalienceH1 ==
    (pc = "assigned" /\ use_salience(heading_candidates, cfg)
        /\ 0 <= cfg.sal_q_h2 /\ cfg.sal_q_h2 < cfg.sal_q_h1 /\ cfg.sal_q_h1 <= 20) =>
        LET sal == _compute_salience_scores(heading_candidates, cfg)
            D   == DOMAIN labeled_headings
        IN  /\ \E i \in D : labeled_headings[i].level = "H1"
            /\ \A i \in D :
                  (\A j \in D : CmpSalience(sal, i, j) >= 0)
                      => labeled_headings[i].level = "H1"
            /\ \A i \in D :
                  labeled_headings[i].level = "H2"
                      => (CmpCut(sal, i, cfg.sal_q_h1) < 0 /\ CmpCut(sal, i, cfg.sal_q_h2) >= 0)
            /\ (\A i, j \in D : CmpSalience(sal, i, j) = 0)
                  => \A i \in D : labeled_headings[i].level = "H1"

====
